---- MODULE Spec2Model ----
(***************************************************************************)
(* A model of the housekeeping / configuration-reload core and of the      *)
(* Sieve-script manager of the mail server:                                *)
(*   crates/jmap/src/sieve/set.rs              (Sieve set / activate)      *)
(*   crates/jmap/src/api/management/reload.rs  (admin reload endpoint)     *)
(*   crates/jmap/src/services/housekeeper.rs   (scheduler loop and queue)  *)
(*                                                                         *)
(* Three families of specifications share the variables:                   *)
(*   SpecSieveSeq  one client, requests executed one after another         *)
(*   SpecSieve     two clients whose requests interleave at every await    *)
(*   SpecServer    admin reload handlers, the scheduler loop, its workers  *)
(***************************************************************************)
EXTENDS Integers, Sequences, FiniteSets, Bags, TLC

VARIABLES
    \* ---- Sieve manager (set.rs) ----
    docs,       \* store: document id -> Property::Value object (or NoDoc)
    blobs,      \* store: linked(account, SieveScript, id) -> blob content
    pc,         \* client -> position inside sieve_script_set / sieve_activate_script
    req,        \* client -> locals of the operation in flight
    nops,       \* operations that may still be started (the bound of a behaviour)
    item_cap,   \* create + update items one set request may carry (a bound)
    stale       \* history: client -> another client committed an update of
                \* the script this client's update loaded and has not committed

VARIABLES
    \* ---- Shared state of the server (common::Inner) ----
    shared_core,        \* inner.shared_core: id of the installed snapshot
    config_version,     \* version counter bumped by increment_config_version
    blocked_ip_version, \* version counter bumped by increment_blocked_version
    tracers,            \* tracer bundle last applied by tracers.update
    chan,               \* inner.ipc.housekeeper_tx -> rx: the control channel
    \* ---- Admin reload endpoint (reload.rs) ----
    adm,                \* admin client -> locals of handle_manage_reload
    nreq,               \* admin requests that may still be started (a bound)
    \* ---- Housekeeper (housekeeper.rs) ----
    heap,               \* queue.heap: bag of Action (due, event)
    now,                \* Instant::now(), in ticks
    spc,                \* position of the scheduler loop
    seeding,            \* providers whose init_acme the seeding still awaits
    srv,                \* the snapshot the loop loaded last: `server` built
                        \* when the wait timed out, or the first load of the
                        \* Purge(Data) arm
    popped,             \* `event`: the action queue.pop() returned last
    workers,            \* bag of spawned tasks that have not finished
    nenv,             \* Purge / Exit events the environment may still send
    horizon           \* the clock may tick up to here (a bound)

sieveVars == <<docs, blobs, pc, req, nops, item_cap, stale>>

serverVars == <<shared_core, config_version, blocked_ip_version, tracers, chan,
                adm, nreq, heap, now, spc, srv, popped, workers, nenv, horizon,
                seeding>>

vars == <<sieveVars, serverVars>>

----------------------------------------------------------------------------
(* Bounds of the model *)

MaxDocId == 2       \* document ids are 0..MaxDocId
MaxOps == 3         \* operations started in one sequential behaviour
MaxConcOps == 2     \* operations started in one interleaved behaviour
MaxItems == 2       \* create + update items of a request, sequential behaviours
MaxConcItems == 1   \* create + update items of a request, interleaved behaviours

(* Program configuration *)
sieve_max_scripts == 1          \* self.config.sieve_max_scripts
sieve_max_script_name == 3      \* self.config.sieve_max_script_name

DocIds == 0..MaxDocId
Procs == {1, 2}
NoId == -1

----------------------------------------------------------------------------
(* Values *)

NoDoc == [exists |-> FALSE, name |-> "", is_active |-> FALSE, blob_size |-> 0]

NoBlob == "none"

\* Script names a client may send, with their byte length and ASCII lower case.
UserNames == {"a", "b", "Vacation", "long"}

NameLen(n) ==
    CASE n = "a" -> 1
      [] n = "b" -> 1
      [] n = "Vacation" -> 8
      [] n = "long" -> 4
      [] OTHER -> 15

\* The names thread_rng().sample_iter(Alphanumeric).take(15) produces; a draw
\* is taken to be fresh (62^15 possibilities).
GenNames == <<"g0", "g1", "g2", "g3", "g4", "g5", "g6", "g7">>

AsciiLower(n) == IF n = "Vacation" THEN "vacation" ELSE n

eq_ignore_ascii_case(n, m) == AsciiLower(n) = AsciiLower(m)

\* Uploaded blobs a request may reference: source length, existence and what
\* the Sieve compiler says of them.  s1 and s2 have the same length.
UploadedBlobs == {"s1", "s2", "s3", "bad", "huge", "missing"}

BlobSourceLen(b) == IF b = "s3" THEN 2 ELSE 1

BlobExists(b) == b # "missing"

Compile(b) ==
    CASE b = "bad" -> "InvalidScript"
      [] b = "huge" -> "ScriptTooLong"
      [] OTHER -> "ok"

\* A property of a set object: property, JSON type of the value, value.
Prop(p, t, v) == [p |-> p, t |-> t, v |-> v]

Objects == {
    <<>>,
    << Prop("BlobId", "BlobId", "s1") >>,
    << Prop("Name", "Text", "a"), Prop("BlobId", "BlobId", "s1") >>,
    << Prop("Name", "Text", "a"), Prop("BlobId", "BlobId", "s2") >>,
    << Prop("Name", "Text", "b"), Prop("BlobId", "BlobId", "s3") >>,
    << Prop("Name", "Text", "a") >>,
    << Prop("Name", "Text", "b") >>,
    << Prop("BlobId", "BlobId", "s2") >>,
    << Prop("BlobId", "BlobId", "own") >>,
    << Prop("Name", "Null", ""), Prop("BlobId", "BlobId", "s1") >>,
    << Prop("Name", "Text", "Vacation"), Prop("BlobId", "BlobId", "s1") >>,
    << Prop("Name", "Text", "long"), Prop("BlobId", "BlobId", "s1") >>,
    << Prop("IsActive", "Bool", "true"), Prop("BlobId", "BlobId", "s1") >>,
    << Prop("BlobId", "BlobId", "bad") >>,
    << Prop("BlobId", "BlobId", "huge") >>,
    << Prop("BlobId", "BlobId", "missing") >>
}

----------------------------------------------------------------------------
(* The store, as the Sieve manager uses it *)

Min(S) == CHOOSE x \in S : \A y \in S : x <= y

\* get_document_ids(account, SieveScript)
DocumentIds(d) == {i \in DocIds : d[i].exists}

\* filter(account, SieveScript, [Filter::eq(Property::Name, value)]).results
FilterName(d, n) == {i \in DocIds : d[i].exists /\ d[i].name = n}

\* filter(account, SieveScript, [Filter::eq(Property::IsActive, 1)]).results
FilterActive(d) == {i \in DocIds : d[i].exists /\ d[i].is_active}

\* assert_value(Property::Value, &hashed): the batch commits only if the
\* stored value still hashes to the hash of the loaded one.
AssertValue(d, i, snap) == d[i] = snap

\* ids held by creations that were assigned an id and have not committed yet
ReservedIds ==
    {req[q].id : q \in {r \in Procs : pc[r] \in {"create_blob", "create_commit"}}}

\* assign_document_id(account, SieveScript)
FreeIds == {i \in DocIds : ~docs[i].exists /\ i \notin ReservedIds}

\* names in the store or held by an operation in flight
UsedNames ==
    {docs[i].name : i \in DocIds} \cup {req[q].val.name : q \in Procs}

FreshName ==
    GenNames[Min({k \in 1..Len(GenNames) : GenNames[k] \notin UsedNames})]

----------------------------------------------------------------------------
(* sieve_set_item: validate and transform one create / update object *)

NoParse == [err |-> "", existing |-> NoId, has_name |-> FALSE, name |-> "",
            blob_id |-> ""]

\* Mutant of NameTaken: the name query is skipped.
NameTaken_NoQuery(update, d, n) == FALSE

\* Whether the name is refused as taken: the query runs for a creation and
\* for an update that changes the name, and finds a script of that name.
NameTaken(update, d, n) ==
    /\ (~update.exists \/ update.name # n)
    /\ FilterName(d, n) # {}

\* The loop over changes_.properties.  update is the current object of the
\* script being updated (NoDoc for a creation), d the store the name query
\* runs against.
RECURSIVE ParseProperties(_, _, _, _)
ParseProperties(props, update, d, acc) ==
    IF props = <<>> THEN acc
    ELSE
      LET pr == Head(props)
          rest == Tail(props)
      IN
      IF pr.p = "Name" /\ pr.t = "Text" THEN
          IF NameLen(pr.v) > sieve_max_script_name
          THEN [acc EXCEPT !.err = "invalidProperties"]
          ELSE IF eq_ignore_ascii_case(pr.v, "vacation")
          THEN [acc EXCEPT !.err = "forbidden"]
          ELSE IF NameTaken(update, d, pr.v)
          THEN [acc EXCEPT !.err = "alreadyExists",
                           !.existing = Min(FilterName(d, pr.v))]
          ELSE ParseProperties(rest, update, d,
                               [acc EXCEPT !.has_name = TRUE, !.name = pr.v])
      ELSE IF pr.p = "BlobId" /\ pr.t = "BlobId" THEN
          ParseProperties(rest, update, d, [acc EXCEPT !.blob_id = pr.v])
      ELSE IF pr.p = "Name" /\ pr.t = "Null" THEN
          ParseProperties(rest, update, d, acc)
      ELSE [acc EXCEPT !.err = "invalidProperties"]

ItemErr(e, existing) ==
    [err |-> e, existing |-> existing, val |-> NoDoc, blob |-> ""]

ItemOk(val, blob) ==
    [err |-> "", existing |-> NoId, val |-> val, blob |-> blob]

\* The object a creation starts from: the name given or a generated one, and
\* is_active forced to false.
NewObject(acc) ==
    [exists |-> TRUE,
     name |-> IF acc.has_name /\ acc.name # "" THEN acc.name ELSE FreshName,
     is_active |-> FALSE,
     blob_size |-> 0]

\* The object an update ends with: the changes merged into the current one.
MergedObject(update, acc) ==
    [update EXCEPT !.name = IF acc.has_name THEN acc.name ELSE @]

SieveSetItem(obj, update, d) ==
    IF update.exists /\ eq_ignore_ascii_case(update.name, "vacation")
    THEN ItemErr("forbidden", NoId)
    ELSE
      LET acc == ParseProperties(obj, update, d, NoParse)
          base == IF update.exists THEN MergedObject(update, acc)
                  ELSE NewObject(acc)
      IN
      IF acc.err # "" THEN ItemErr(acc.err, acc.existing)
      ELSE IF acc.blob_id # "" THEN
          IF ~update.exists \/ acc.blob_id # "own" THEN
              IF ~BlobExists(acc.blob_id) THEN ItemErr("blobNotFound", NoId)
              ELSE IF Compile(acc.blob_id) = "ScriptTooLong"
              THEN ItemErr("tooLarge", NoId)
              ELSE IF Compile(acc.blob_id) # "ok"
              THEN ItemErr("invalidScript", NoId)
              ELSE ItemOk([base EXCEPT !.blob_size = BlobSourceLen(acc.blob_id)],
                          acc.blob_id)
          ELSE ItemOk(base, "")
      ELSE IF ~update.exists THEN ItemErr("invalidProperties", NoId)
      ELSE ItemOk(base, "")

----------------------------------------------------------------------------
(* Locals of one operation *)

NoLast == [kind |-> "", id |-> NoId, err |-> "", existing |-> NoId, name |-> ""]

Last(kind, id, err, existing, name) ==
    [kind |-> kind, id |-> id, err |-> err, existing |-> existing, name |-> name]

NoReq ==
    [op |-> "none", sieve_ids |-> {}, will_destroy |-> {}, to_destroy |-> {},
     items |-> 0, created |-> <<>>, failed |-> FALSE,
     changes |-> FALSE, new_state |-> FALSE, last |-> NoLast,
     id |-> NoId, snap |-> NoDoc, val |-> NoDoc, blob |-> "",
     activate_id |-> NoId, active_ids |-> {}, todo |-> <<>>,
     batch |-> <<>>, ret |-> <<>>]

RECURSIVE SetToSeq(_)
SetToSeq(S) ==
    IF S = {} THEN <<>> ELSE <<Min(S)>> \o SetToSeq(S \ {Min(S)})

SeqRange(s) == {s[i] : i \in 1..Len(s)}

\* the objects a creation may carry (a linked blob id names a stored script)
CreateObjects ==
    {o \in Objects : \A i \in 1..Len(o) : o[i].v # "own"}

\* onSuccessActivateScript / onSuccessDeactivateScript of a set request
OnSuccess ==
    {[kind |-> "none", arg |-> NoId], [kind |-> "deactivate", arg |-> NoId]}
    \cup {[kind |-> "value", arg |-> i] : i \in DocIds}
    \cup {[kind |-> "reference", arg |-> k] : k \in 1..MaxItems}

----------------------------------------------------------------------------
(* sieve_script_set *)

SetReq(p, r) == req' = [req EXCEPT ![p] = r]

Goto(p, l) == pc' = [pc EXCEPT ![p] = l]

\* Entry: load the account's document ids, take the destroy list.
StartSet(p) ==
    /\ pc[p] = "idle"
    /\ nops > 0
    /\ \E wd \in {{}} \cup {{i} : i \in DocIds} :
          SetReq(p, [NoReq EXCEPT !.op = "set",
                                  !.sieve_ids = DocumentIds(docs),
                                  !.will_destroy = wd,
                                  !.items = item_cap,
                                  !.to_destroy = wd])
    /\ Goto(p, "create")
    /\ nops' = nops - 1
    /\ UNCHANGED <<docs, blobs, item_cap, stale, serverVars>>

\* The quota test of the create loop.
QuotaAllows(sieve_ids) == Cardinality(sieve_ids) <= sieve_max_scripts

\* Mutant of CreateItem: a validation error ends the whole request.
CreateItem_ReturnsOnError(p) ==
    /\ pc[p] = "create"
    /\ req[p].items > 0
    /\ \E obj \in CreateObjects :
         LET r == req[p]
             n == r.items - 1
             res == SieveSetItem(obj, NoDoc, docs)
             given == IF obj # <<>> /\ obj[1].p = "Name" THEN obj[1].v ELSE ""
         IN
         IF ~QuotaAllows(r.sieve_ids) THEN
             /\ SetReq(p, [r EXCEPT !.items = n, !.failed = TRUE,
                             !.last = Last("create", NoId, "overQuota", NoId, given)])
             /\ Goto(p, "create")
         ELSE IF res.err # "" THEN
             /\ SetReq(p, [r EXCEPT !.items = n, !.failed = TRUE,
                             !.last = Last("create", NoId, res.err, res.existing, given)])
             /\ Goto(p, "done")
         ELSE
             /\ SetReq(p, [r EXCEPT !.items = n, !.val = res.val,
                             !.blob = res.blob,
                             !.last = Last("create", NoId, "pending", NoId, given)])
             /\ Goto(p, "create_assign")
    /\ UNCHANGED <<docs, blobs, nops, item_cap, stale, serverVars>>

\* One create item: quota test, then sieve_set_item (its name query reads the
\* store now).
CreateItem(p) ==
    /\ pc[p] = "create"
    /\ req[p].items > 0
    /\ \E obj \in CreateObjects :
         LET r == req[p]
             n == r.items - 1
             res == SieveSetItem(obj, NoDoc, docs)
             given == IF obj # <<>> /\ obj[1].p = "Name" THEN obj[1].v ELSE ""
         IN
         IF ~QuotaAllows(r.sieve_ids) THEN
             /\ SetReq(p, [r EXCEPT !.items = n, !.failed = TRUE,
                             !.last = Last("create", NoId, "overQuota", NoId, given)])
             /\ Goto(p, "create")
         ELSE IF res.err # "" THEN
             /\ SetReq(p, [r EXCEPT !.items = n, !.failed = TRUE,
                             !.last = Last("create", NoId, res.err, res.existing, given)])
             /\ Goto(p, "create")
         ELSE
             /\ SetReq(p, [r EXCEPT !.items = n, !.val = res.val,
                             !.blob = res.blob,
                             !.last = Last("create", NoId, "pending", NoId, given)])
             /\ Goto(p, "create_assign")
    /\ UNCHANGED <<docs, blobs, nops, item_cap, stale, serverVars>>

\* assign_document_id(account, SieveScript).await: the id is held from here.
CreateAssign(p) ==
    /\ pc[p] = "create_assign"
    /\ FreeIds # {}
    /\ SetReq(p, [req[p] EXCEPT !.id = Min(FreeIds)])
    /\ Goto(p, "create_blob")
    /\ UNCHANGED <<docs, blobs, nops, item_cap, stale, serverVars>>

\* put_blob(&blob_id.kind, &blob).await under the linked blob id.
CreateBlob(p) ==
    /\ pc[p] = "create_blob"
    /\ blobs' = [blobs EXCEPT ![req[p].id] = req[p].blob]
    /\ Goto(p, "create_commit")
    /\ UNCHANGED <<docs, req, nops, item_cap, stale, serverVars>>

\* write_batch(create_document + object), log_insert, response.created.
CreateCommit(p) ==
    /\ pc[p] = "create_commit"
    /\ LET r == req[p] IN
         /\ docs' = [docs EXCEPT ![r.id] = r.val]
         /\ SetReq(p, [r EXCEPT !.sieve_ids = @ \cup {r.id},
                         !.changes = TRUE,
                         !.created = Append(@, r.id),
                         !.last = Last("create", r.id, "", NoId, r.last.name),
                         !.id = NoId, !.val = NoDoc, !.blob = ""])
    /\ Goto(p, "create")
    /\ UNCHANGED <<blobs, nops, item_cap, stale, serverVars>>

\* The create loop is over.
CreateDone(p) ==
    /\ pc[p] = "create"
    /\ SetReq(p, [req[p] EXCEPT !.last = NoLast])
    /\ Goto(p, "update")
    /\ UNCHANGED <<docs, blobs, nops, item_cap, stale, serverVars>>

\* One update item, up to the load of the hashed current value.
UpdateLoad(p) ==
    /\ pc[p] = "update"
    /\ req[p].items > 0
    /\ \E id \in DocIds :
         LET r == [req[p] EXCEPT !.items = @ - 1] IN
         IF id \in r.will_destroy THEN
             /\ SetReq(p, [r EXCEPT !.failed = TRUE,
                             !.last = Last("update", id, "willDestroy", NoId, "")])
             /\ Goto(p, "update")
         ELSE IF docs[id].exists THEN
             /\ SetReq(p, [r EXCEPT !.id = id, !.snap = docs[id],
                             !.last = Last("update", id, "pending", NoId, "")])
             /\ Goto(p, "update_validate")
         ELSE
             /\ SetReq(p, [r EXCEPT !.failed = TRUE,
                             !.last = Last("update", id, "notFound", NoId, "")])
             /\ Goto(p, "update")
    /\ stale' = [stale EXCEPT ![p] = FALSE]
    /\ UNCHANGED <<docs, blobs, nops, item_cap, serverVars>>

\* sieve_set_item on the loaded object.
UpdateValidate(p) ==
    /\ pc[p] = "update_validate"
    /\ \E obj \in Objects :
         LET r == req[p]
             res == SieveSetItem(obj, r.snap, docs)
         IN
         IF res.err # "" THEN
             /\ SetReq(p, [r EXCEPT !.failed = TRUE, !.id = NoId, !.snap = NoDoc,
                             !.last = Last("update", r.id, res.err, res.existing, "")])
             /\ Goto(p, "update")
         ELSE
             /\ SetReq(p, [r EXCEPT !.val = res.val, !.blob = res.blob])
             /\ Goto(p, IF res.blob # "" THEN "update_blob" ELSE "update_commit")
    /\ UNCHANGED <<docs, blobs, nops, item_cap, stale, serverVars>>

\* put_blob of the new source + compiled form.
UpdateBlob(p) ==
    /\ pc[p] = "update_blob"
    /\ blobs' = [blobs EXCEPT ![req[p].id] = req[p].blob]
    /\ Goto(p, "update_commit")
    /\ UNCHANGED <<docs, req, nops, item_cap, stale, serverVars>>

\* Client q has loaded script id for an update and has not committed it.
InUpdate(q, id) ==
    /\ pc[q] \in {"update_validate", "update_blob", "update_commit"}
    /\ req[q].id = id

\* log_update, then store.write of the batch with its assert_value.
UpdateCommit(p) ==
    /\ pc[p] = "update_commit"
    /\ LET r == req[p]
           ok == AssertValue(docs, r.id, r.snap)
       IN
         /\ docs' = IF ok THEN [docs EXCEPT ![r.id] = r.val] ELSE docs
         /\ SetReq(p, [r EXCEPT !.changes = TRUE,
                         !.failed = IF ok THEN @ ELSE TRUE,
                         !.last = Last("update", r.id,
                                       IF ok THEN "" ELSE "forbidden", NoId, ""),
                         !.id = NoId, !.snap = NoDoc, !.val = NoDoc, !.blob = ""])
         /\ stale' = [q \in Procs |->
                        IF ok /\ q # p /\ InUpdate(q, r.id) THEN TRUE ELSE stale[q]]
    /\ Goto(p, "update")
    /\ UNCHANGED <<blobs, nops, item_cap, serverVars>>

\* The update loop is over.
UpdateDone(p) ==
    /\ pc[p] = "update"
    /\ SetReq(p, [req[p] EXCEPT !.items = 0, !.last = NoLast])
    /\ Goto(p, "destroy")
    /\ UNCHANGED <<docs, blobs, nops, item_cap, stale, serverVars>>

\* Mutant of IsActiveScript: the test is skipped.
IsActiveScript_NoTest(d, id) == FALSE

\* The test that protects an active script from deletion.
IsActiveScript(d, id) == d[id].exists /\ d[id].is_active

\* One destroy item, up to the is_active test.
DestroyItem(p) ==
    /\ pc[p] = "destroy"
    /\ req[p].to_destroy # {}
    /\ LET id == Min(req[p].to_destroy)
           r == [req[p] EXCEPT !.to_destroy = @ \ {id}]
       IN
         IF id \in r.sieve_ids THEN
             IF IsActiveScript(docs, id) THEN
                 /\ SetReq(p, [r EXCEPT !.failed = TRUE,
                                 !.last = Last("destroy", id, "scriptIsActive", NoId, "")])
                 /\ Goto(p, "destroy")
             ELSE
                 /\ SetReq(p, [r EXCEPT !.id = id,
                                 !.last = Last("destroy", id, "pending", NoId, "")])
                 /\ Goto(p, "destroy_delete")
         ELSE
             /\ SetReq(p, [r EXCEPT !.failed = TRUE,
                             !.last = Last("destroy", id, "notFound", NoId, "")])
             /\ Goto(p, "destroy")
    /\ UNCHANGED <<docs, blobs, nops, item_cap, stale, serverVars>>

\* sieve_script_delete: the batch that deletes the document and its value.
DestroyDelete(p) ==
    /\ pc[p] = "destroy_delete"
    /\ docs' = [docs EXCEPT ![req[p].id] = NoDoc]
    /\ Goto(p, "destroy_blob")
    /\ UNCHANGED <<blobs, req, nops, item_cap, stale, serverVars>>

\* sieve_script_delete: delete_blob, then log_delete and response.destroyed.
DestroyBlob(p) ==
    /\ pc[p] = "destroy_blob"
    /\ blobs' = [blobs EXCEPT ![req[p].id] = NoBlob]
    /\ SetReq(p, [req[p] EXCEPT !.changes = TRUE,
                    !.last = Last("destroy", req[p].id, "", NoId, ""),
                    !.id = NoId])
    /\ Goto(p, "destroy")
    /\ UNCHANGED <<docs, nops, item_cap, stale, serverVars>>

\* The activation condition without the three emptiness tests.
WantsActivation_IgnoresRejections(r, on) == on.kind # "none"

\* Whether the request goes on to sieve_activate_script.
WantsActivation(r, on) ==
    /\ ~r.failed
    /\ on.kind # "none"

\* commit_changes, then the on-success activation / deactivation.
CommitChanges(p) ==
    /\ pc[p] = "destroy"
    /\ req[p].to_destroy = {}
    /\ \E on \in OnSuccess :
         LET r == [req[p] EXCEPT !.new_state = req[p].changes] IN
         IF WantsActivation(r, on) THEN
             IF on.kind = "reference" /\ on.arg > Len(r.created) THEN
                 /\ SetReq(p, r)
                 /\ Goto(p, "done")
             ELSE
                 /\ SetReq(p, [r EXCEPT !.activate_id =
                                 CASE on.kind = "value" -> on.arg
                                   [] on.kind = "reference" -> r.created[on.arg]
                                   [] OTHER -> NoId])
                 /\ Goto(p, "act_query")
         ELSE
             /\ SetReq(p, r)
             /\ Goto(p, "done")
    /\ UNCHANGED <<docs, blobs, nops, item_cap, stale, serverVars>>

----------------------------------------------------------------------------
(* sieve_activate_script *)

\* A direct call (not from a set request).
StartActivate(p) ==
    /\ pc[p] = "idle"
    /\ nops > 0
    /\ \E aid \in DocIds \cup {NoId} :
          SetReq(p, [NoReq EXCEPT !.op = "activate", !.activate_id = aid])
    /\ Goto(p, "act_query")
    /\ nops' = nops - 1
    /\ UNCHANGED <<docs, blobs, item_cap, stale, serverVars>>

\* Mutant of AlreadyActive: no early return.
AlreadyActive_NoReturn(activate_id, active_ids) == FALSE

\* "Check if script is already active"
AlreadyActive(activate_id, active_ids) ==
    activate_id # NoId /\ activate_id \in active_ids

BatchOp(id, snap, on) == [id |-> id, snap |-> snap, is_active |-> on]

\* Mutant of ActivationLoads: the active scripts are not deactivated.
ActivationLoads_NoDeactivate(active_ids, activate_id) ==
    IF activate_id # NoId THEN << activate_id >> ELSE <<>>

\* The scripts whose hashed value the call loads, in order: every script
\* found active (to deactivate it), then the one to activate.
ActivationLoads(active_ids, activate_id) ==
    SetToSeq(active_ids)
    \o (IF activate_id # NoId THEN << activate_id >> ELSE <<>>)

\* The query for the active scripts and the early return.
ActQuery(p) ==
    /\ pc[p] = "act_query"
    /\ LET r == [req[p] EXCEPT !.active_ids = FilterActive(docs)] IN
         IF AlreadyActive(r.activate_id, r.active_ids)
         THEN /\ SetReq(p, r)
              /\ Goto(p, "done")
         ELSE LET loads == ActivationLoads(r.active_ids, r.activate_id) IN
              /\ SetReq(p, [r EXCEPT !.todo = loads])
              /\ Goto(p, IF loads = <<>> THEN "done" ELSE "act_load")
    /\ UNCHANGED <<docs, blobs, nops, item_cap, stale, serverVars>>

\* One get_property(..).await of the hashed value: a script that is found
\* is added to the batch with the value loaded now (is_active = false for a
\* deactivation, true for the script to activate); an id whose value cannot
\* be loaded is left out.  After the last load the batch is written if it
\* holds anything.
ActLoad(p) ==
    /\ pc[p] = "act_load"
    /\ LET r == req[p]
           id == Head(r.todo)
           b == IF docs[id].exists
                THEN Append(r.batch, BatchOp(id, docs[id], id = r.activate_id))
                ELSE r.batch
       IN
         /\ SetReq(p, [r EXCEPT !.todo = Tail(@), !.batch = b])
         /\ Goto(p, IF Tail(r.todo) # <<>> THEN "act_load"
                    ELSE IF b = <<>> THEN "done" ELSE "act_commit")
    /\ UNCHANGED <<docs, blobs, nops, item_cap, stale, serverVars>>

\* The store after the batch is applied.
ApplyBatch(d, b) ==
    [i \in DocIds |->
        IF \E k \in 1..Len(b) : b[k].id = i
        THEN LET k == CHOOSE k \in 1..Len(b) : b[k].id = i
             IN  [b[k].snap EXCEPT !.is_active = b[k].is_active]
        ELSE d[i]]

\* the (document_id, is_active) pairs of a batch
ChangedIds(b) == [k \in 1..Len(b) |-> <<b[k].id, b[k].is_active>>]

\* The commit reporting its changes whatever store.write returns.
ActCommit_ReportsAnyway(p) ==
    /\ pc[p] = "act_commit"
    /\ LET r == req[p]
           ok == \A k \in 1..Len(r.batch) :
                    AssertValue(docs, r.batch[k].id, r.batch[k].snap)
       IN
         /\ docs' = IF ok THEN ApplyBatch(docs, r.batch) ELSE docs
         /\ SetReq(p, [r EXCEPT !.ret = ChangedIds(r.batch)])
    /\ Goto(p, "done")
    /\ UNCHANGED <<blobs, nops, item_cap, stale, serverVars>>

\* store.write of the batch: all assertions hold, or nothing is written.
ActCommit(p) ==
    /\ pc[p] = "act_commit"
    /\ LET r == req[p]
           ok == \A k \in 1..Len(r.batch) :
                    AssertValue(docs, r.batch[k].id, r.batch[k].snap)
       IN
         /\ docs' = IF ok THEN ApplyBatch(docs, r.batch) ELSE docs
         /\ SetReq(p, [r EXCEPT !.ret = IF ok THEN ChangedIds(r.batch) ELSE <<>>])
    /\ Goto(p, "done")
    /\ UNCHANGED <<blobs, nops, item_cap, stale, serverVars>>

\* The operation returns to its caller.
Return(p) ==
    /\ pc[p] = "done"
    /\ SetReq(p, NoReq)
    /\ Goto(p, "idle")
    /\ UNCHANGED <<docs, blobs, nops, item_cap, stale, serverVars>>

SieveStep(p) ==
    \/ StartSet(p) \/ CreateItem(p) \/ CreateAssign(p) \/ CreateBlob(p)
    \/ CreateCommit(p)
    \/ CreateDone(p) \/ UpdateLoad(p) \/ UpdateValidate(p) \/ UpdateBlob(p)
    \/ UpdateCommit(p) \/ UpdateDone(p) \/ DestroyItem(p) \/ DestroyDelete(p)
    \/ DestroyBlob(p) \/ CommitChanges(p) \/ StartActivate(p) \/ ActQuery(p)
    \/ ActLoad(p) \/ ActCommit(p) \/ Return(p)

\* The server side, left alone by the Sieve specifications.
ServerAtRest ==
    /\ shared_core = 1
    /\ config_version = 0
    /\ blocked_ip_version = 0
    /\ tracers = [bundle |-> 0, enterprise |-> FALSE]
    /\ chan = <<>>
    /\ adm = <<>>
    /\ nreq = 0
    /\ heap = EmptyBag
    /\ now = 0
    /\ spc = "stopped"
    /\ srv = 1
    /\ popped = [due |-> 0, event |-> [class |-> "", idx |-> 0, id |-> ""]]
    /\ workers = EmptyBag
    /\ nenv = 0
    /\ horizon = 0
    /\ seeding = <<>>

\* After construction: an account without scripts.
InitSieveSeq ==
    /\ docs = [i \in DocIds |-> NoDoc]
    /\ blobs = [i \in DocIds |-> NoBlob]
    /\ pc = [p \in Procs |-> "idle"]
    /\ req = [p \in Procs |-> NoReq]
    /\ nops = MaxOps
    /\ item_cap = MaxItems
    /\ stale = [p \in Procs |-> FALSE]
    /\ ServerAtRest

Script(n, on) == [exists |-> TRUE, name |-> n, is_active |-> on, blob_size |-> 1]

\* Accounts that requests executed one after another leave behind: no
\* script, one script, or two scripts of different names, at most one active.
SettledStores ==
    { [i \in DocIds |-> NoDoc] }
    \cup { [i \in DocIds |-> IF i = 0 THEN Script("a", on) ELSE NoDoc] :
             on \in BOOLEAN }
    \cup { [i \in DocIds |-> CASE i = 0 -> Script("a", on = 0)
                               [] i = 1 -> Script("b", on = 1)
                               [] OTHER -> NoDoc] : on \in {0, 1, 2} }

\* Two clients start on a settled account.
InitSieve ==
    /\ docs \in SettledStores
    /\ blobs = [i \in DocIds |-> IF docs[i].exists THEN "s1" ELSE NoBlob]
    /\ pc = [p \in Procs |-> "idle"]
    /\ req = [p \in Procs |-> NoReq]
    /\ nops = MaxConcOps
    /\ item_cap = MaxConcItems
    /\ stale = [p \in Procs |-> FALSE]
    /\ ServerAtRest

NextSieveSeq == \E p \in {1} : SieveStep(p)

NextSieve == \E p \in Procs : SieveStep(p)

SpecSieveSeq == InitSieveSeq /\ [][NextSieveSeq]_vars

SpecSieve == InitSieve /\ [][NextSieve]_vars

----------------------------------------------------------------------------
(* Claims about the Sieve manager *)

ActiveCount == Cardinality(FilterActive(docs))

\* C1: after any sequence of sieve_script_set and sieve_activate_script
\* operations executed one after another, the account has zero or one script
\* with is_active = true.
C1_ActiveSingleton == ActiveCount <= 1

\* An activation that switched the active script: it returned (Y, false) and
\* (X, true) and exactly X is active.
C1_Witness ==
    \E p \in Procs :
        /\ pc[p] = "done"
        /\ Len(req[p].ret) = 2
        /\ req[p].ret[2][2] = TRUE
        /\ FilterActive(docs) = {req[p].ret[2][1]}

\* C2: when two updates of one script have both loaded its hashed value
\* before either commits, the one that commits second is rejected with
\* forbidden ("another process modified this sieve"), so exactly one of the
\* two is reported in `updated`.
C2_ExactlyOneUpdateWins ==
    \A p \in Procs :
        (/\ pc[p] = "update"
         /\ req[p].last.kind = "update"
         /\ req[p].last.err \in {"", "forbidden"}
         /\ stale[p])
        => req[p].last.err = "forbidden"

\* C3: sieve_activate_script(account, Some(id)) that finds id among the
\* active scripts returns an empty change list at once and writes nothing.
C3_IdempotentActivation ==
    [][\A p \in Procs :
        (/\ pc[p] = "act_query"
         /\ pc'[p] # "act_query"
         /\ req[p].activate_id # NoId
         /\ req[p].activate_id \in FilterActive(docs))
        => (/\ pc'[p] = "done"
            /\ req'[p].ret = <<>>
            /\ req'[p].batch = <<>>
            /\ docs' = docs
            /\ blobs' = blobs)]_vars

\* The call returned early: the script it was asked to activate was active.
C3_Witness ==
    \E p \in Procs :
        /\ pc[p] = "done"
        /\ req[p].op = "activate"
        /\ req[p].activate_id \in req[p].active_ids
        /\ req[p].ret = <<>>
        /\ docs[req[p].activate_id].is_active

\* C4: a destroy item whose script is stored with is_active = true is
\* rejected with scriptIsActive and leaves the document, its value and its
\* blob as they were.
C4_DestroyActiveRejected ==
    [][\A p \in Procs :
        (/\ pc[p] = "destroy"
         /\ req[p].to_destroy # {}
         /\ req'[p].to_destroy # req[p].to_destroy
         /\ docs[Min(req[p].to_destroy)].exists
         /\ docs[Min(req[p].to_destroy)].is_active)
        => (/\ pc'[p] = "destroy"
            /\ req'[p].failed
            /\ req'[p].last.kind = "destroy"
            /\ req'[p].last.id = Min(req[p].to_destroy)
            /\ req'[p].last.err = "scriptIsActive"
            /\ docs' = docs
            /\ blobs' = blobs)]_vars

\* A destroy was rejected with scriptIsActive and the script is still there.
C4_Witness ==
    \E p \in Procs :
        /\ pc[p] = "done"
        /\ req[p].last.kind = "destroy"
        /\ req[p].last.err = "scriptIsActive"
        /\ docs[req[p].last.id].exists
        /\ docs[req[p].last.id].is_active
        /\ blobs[req[p].last.id] # NoBlob

UniqueNames ==
    \A i, j \in DocIds :
        (docs[i].exists /\ docs[j].exists /\ docs[i].name = docs[j].name) => i = j

\* The last create item named a script this request created before.
SecondOfSameName(p) ==
    /\ pc[p] = "create"
    /\ req[p].last.kind = "create"
    /\ req[p].last.id = NoId
    /\ req[p].last.name # ""
    /\ \E k \in 1..Len(req[p].created) :
          docs[req[p].created[k]].name = req[p].last.name

FirstOfSameName(p) ==
    Min({i \in SeqRange(req[p].created) : docs[i].name = req[p].last.name})

\* C5 as stated: the second creation of a name in one request is rejected
\* with alreadyExists carrying the id of the first, and no two scripts of an
\* account have the same name.
C5_SecondCreateAlreadyExists ==
    /\ UniqueNames
    /\ \A p \in Procs :
          SecondOfSameName(p) =>
              /\ req[p].last.err = "alreadyExists"
              /\ req[p].last.existing = FirstOfSameName(p)

\* C5 amended: the second creation is rejected with overQuota when the
\* request's script count already exceeds sieve_max_scripts, and otherwise
\* with alreadyExists carrying the id of the first; no two scripts of an
\* account have the same name.
C5_SecondCreateRejected ==
    /\ UniqueNames
    /\ \A p \in Procs :
          SecondOfSameName(p) =>
              IF Cardinality(req[p].sieve_ids) <= sieve_max_scripts
              THEN /\ req[p].last.err = "alreadyExists"
                   /\ req[p].last.existing = FirstOfSameName(p)
              ELSE req[p].last.err = "overQuota"

\* The second creation of a name was rejected with alreadyExists and the id
\* of the first.
C5_Witness ==
    \E p \in Procs :
        /\ SecondOfSameName(p)
        /\ req[p].last.err = "alreadyExists"
        /\ req[p].last.existing = req[p].created[1]

\* ======================================================================
\* Configuration reload and housekeeper
\*   crates/jmap/src/api/management/reload.rs
\*   crates/jmap/src/services/housekeeper.rs
\* ======================================================================

\* ---- Bounds of the server model ----
MaxTime == 1            \* the clock stops ticking here
MaxReq == 1             \* admin requests over a behaviour
MaxEnv == 1             \* Purge or Exit events sent by the environment
ChanCap == 2            \* capacity of the bounded control channel

Admins == {1}

\* ---- Durations, in ticks of five minutes ----
METRIC_ALERTS_INTERVAL == 1     \* Duration::from_secs(5 * 60)
FiveMinutes == 1                \* Duration::from_secs(5 * 60)
AcmeBackoff == 12               \* Duration::from_secs(3600)

\* ---- Core snapshots ----
\* A snapshot is immutable; shared_core holds the id of the installed one.
\* otel and metrics_store are 0 for None, else the interval / cron period.
CoreTable ==
    << [otel |-> 1, enterprise |-> FALSE, license |-> 0, metrics_store |-> 0,
        metrics_alerts |-> FALSE, providers |-> <<>>,
        purge_schedules |-> <<1>>, session |-> 1, account |-> 1],
       [otel |-> 1, enterprise |-> TRUE, license |-> 1, metrics_store |-> 1,
        metrics_alerts |-> TRUE, providers |-> <<"p1">>,
        purge_schedules |-> <<>>, session |-> 2, account |-> 2] >>

CoreIds == 1..Len(CoreTable)

NoCore == 0             \* result.new_core = None

core(id) == CoreTable[id]

is_enterprise_edition(id) == core(id).enterprise

Providers == {"p1"}

\* Cron: the time from `t` to the next multiple of `period`.
time_to_next(period, t) == period - (t % period)

\* license.expires_in()
expires_in(id) == core(id).license

\* Outcomes of init_acme / renew: a duration, or Err as -1.
AcmeErr == -1
RenewDurations == {1}
AcmeResults == RenewDurations \cup {AcmeErr}

\* ---- Atomic counters (common::Inner) ----
\* fetch_add(1) on a 64-bit counter that starts at 0; the bounded number of
\* operations keeps it far from wrapping.
increment_config_version(v) == v + 1

increment_blocked_version(v) == v + 1

\* ---- ActionClass and Queue ----
Class(c, idx, id) == [class |-> c, idx |-> idx, id |-> id]
Session == Class("Session", 0, "")
Account == Class("Account", 0, "")
Store(idx) == Class("Store", idx, "")
Acme(id) == Class("Acme", 0, id)
OtelMetrics == Class("OtelMetrics", 0, "")
InternalMetrics == Class("InternalMetrics", 0, "")
CalculateMetrics == Class("CalculateMetrics", 0, "")
AlertMetrics == Class("AlertMetrics", 0, "")
ValidateLicense == Class("ValidateLicense", 0, "")

Action(due, event) == [due |-> due, event |-> event]

\* Queue::schedule: push, without looking at what is queued.
schedule(q, due, event) == q (+) SetToBag({Action(due, event)})

\* A queue whose remove_action retains everything.
remove_action_Nothing(q, event) == q

\* Queue::remove_action: retain the entries of the other classes.
remove_action(q, event) ==
    [a \in {x \in BagToSet(q) : x.event # event} |-> q[a]]

\* A queue whose has_action finds nothing.
has_action_Never(q, event) == FALSE

\* Queue::has_action
has_action(q, event) == \E a \in BagToSet(q) : a.event = event

\* The entries BinaryHeap::peek may return: those with the smallest due
\* (Ord for Action compares due only, reversed).
peek(q) == {a \in BagToSet(q) : \A b \in BagToSet(q) : a.due <= b.due}

\* A pop that does not compare the due time with now.
pop_NoDueTest(q, t) == peek(q)

\* Queue::pop: the entries it may return at time t; empty for None.
pop(q, t) == {a \in peek(q) : a.due <= t}

\* Queue::wake_up_time, when the queue is not empty.
wake_up_time(q, t) ==
    LET due == (CHOOSE a \in peek(q) : TRUE).due
    IN IF due > t THEN due - t ELSE 0

\* ---- HousekeeperEvent ----
Event(type, provider_id, renew_at) ==
    [type |-> type, provider_id |-> provider_id, renew_at |-> renew_at,
     purge |-> ""]
\* PurgeType: Data, Blobs, Lookup, Account.
PurgeTypes == {"Data", "Blobs", "Lookup", "Account"}
ReloadSettings == Event("ReloadSettings", "", 0)
AcmeReschedule(provider_id, renew_at) ==
    Event("AcmeReschedule", provider_id, renew_at)
Purge(purge) == [Event("Purge", "", 0) EXCEPT !.purge = purge]
Exit == Event("Exit", "", 0)

\* mpsc::Sender::send: blocks while the channel is full, fails once the
\* receiver is dropped.
SendFails == spc = "stopped"
SendReady == spc # "stopped" /\ Len(chan) < ChanCap

\* ---- handle_manage_reload: requests and results ----
Paths == {"", "lookup", "certificate", "server.blocked-ip", "other"}
Methods == {"GET", "POST"}

NoTracers == 0          \* result.tracers = None
TracerIds == {1}

\* What reload(), reload_lookups(), ... may return: Err, or a report.
Report(ok, new_core, tr) == [ok |-> ok, new_core |-> new_core, tracers |-> tr]
ReloadErr == Report(FALSE, NoCore, NoTracers)
ReloadResults ==
    {ReloadErr} \cup
    {Report(TRUE, c, t) : c \in {NoCore} \cup CoreIds,
                          t \in {NoTracers} \cup TracerIds}

\* The match on (path.get(1), req.method()).
Route(path, method) ==
    IF method # "GET" THEN "not_found"
    ELSE IF path \in {"lookup", "certificate", "server.blocked-ip"} THEN path
    ELSE "reload"

\* The handler without the dry-run test.
HasDryRun_Never(r) == FALSE

\* UrlParams::has_key("dry-run")
HasDryRun(r) == r.dry_run

\* Locals of one handler invocation.  bumps, blocked_bumps, sent and
\* installed record what this invocation has done so far.
Handler(hpc, route, dry_run, result, response) ==
    [pc |-> hpc, route |-> route, path |-> "", dry_run |-> dry_run,
     result |-> result, response |-> response, bumps |-> 0,
     blocked_bumps |-> 0, sent |-> 0, installed |-> NoCore]

IdleHandler == Handler("idle", "", FALSE, ReloadErr, "")

SetAdm(a, r) == adm' = [adm EXCEPT ![a] = r]

Respond(a, response) ==
    SetAdm(a, [adm[a] EXCEPT !.pc = "done", !.response = response])

\* Entry: permission check, then the match.  The query string is looked at
\* in the (_, GET) arm only; path is kept by the handlers the match lets
\* through.  A handler that has responded is over; the
\* client may issue its next request.
StartReload(a) ==
    /\ adm[a].pc \in {"idle", "done"}
    /\ nreq > 0
    /\ nreq' = nreq - 1
    /\ \E path \in Paths, method \in Methods, dry \in BOOLEAN,
          permitted \in BOOLEAN :
          LET route == Route(path, method) IN
          IF ~permitted
          THEN SetAdm(a, Handler("done", "", FALSE, ReloadErr, "forbidden"))
          ELSE IF route = "not_found"
          THEN SetAdm(a, Handler("done", route, FALSE, ReloadErr,
                                 "not_found"))
          ELSE SetAdm(a, [Handler(route, route, dry /\ route = "reload",
                                  ReloadErr, "")
                              EXCEPT !.path = path])
    /\ UNCHANGED <<shared_core, config_version, blocked_ip_version, tracers,
                   chan, heap, now, spc, srv, popped, workers, nenv, horizon, seeding, sieveVars>>

\* (Some("lookup"), GET): reload_lookups, then store the core if any.
ReloadLookups(a) ==
    /\ adm[a].pc = "lookup"
    /\ \E result \in ReloadResults :
          IF ~result.ok
          THEN /\ Respond(a, "error")
               /\ UNCHANGED shared_core
          ELSE /\ shared_core' = IF result.new_core # NoCore
                                 THEN result.new_core ELSE shared_core
               /\ SetAdm(a, [adm[a] EXCEPT !.pc = "done", !.response = "ok",
                                           !.result = result,
                                           !.installed = result.new_core])
    /\ UNCHANGED <<config_version, blocked_ip_version, tracers, chan, nreq,
                   heap, now, spc, srv, popped, workers, nenv, horizon, seeding, sieveVars>>

\* (Some("certificate"), GET): reload_certificates.
ReloadCertificates(a) ==
    /\ adm[a].pc = "certificate"
    /\ \E ok \in BOOLEAN : Respond(a, IF ok THEN "ok" ELSE "error")
    /\ UNCHANGED <<shared_core, config_version, blocked_ip_version, tracers,
                   chan, nreq, heap, now, spc, srv, popped, workers, nenv, horizon, seeding, sieveVars>>

\* The blocked-IP arm bumping the configuration counter.
ReloadBlockedIps_BumpsConfig(a) ==
    /\ adm[a].pc = "server.blocked-ip"
    /\ \E ok \in BOOLEAN :
          IF ~ok
          THEN /\ Respond(a, "error")
               /\ UNCHANGED config_version
          ELSE /\ config_version' = increment_config_version(config_version)
               /\ SetAdm(a, [adm[a] EXCEPT
                      !.pc = "done", !.response = "ok",
                      !.blocked_bumps = @ + 1])
    /\ UNCHANGED <<shared_core, blocked_ip_version, tracers, chan, nreq, heap,
                   now, spc, srv, popped, workers, nenv, horizon, seeding, sieveVars>>

\* (Some("server.blocked-ip"), GET): reload_blocked_ips, then bump.
ReloadBlockedIps(a) ==
    /\ adm[a].pc = "server.blocked-ip"
    /\ \E ok \in BOOLEAN :
          IF ~ok
          THEN /\ Respond(a, "error")
               /\ UNCHANGED blocked_ip_version
          ELSE /\ blocked_ip_version' =
                      increment_blocked_version(blocked_ip_version)
               /\ SetAdm(a, [adm[a] EXCEPT
                      !.pc = "done", !.response = "ok",
                      !.blocked_bumps = @ + blocked_ip_version'
                                          - blocked_ip_version])
    /\ UNCHANGED <<shared_core, config_version, tracers, chan, nreq, heap,
                   now, spc, srv, popped, workers, nenv, horizon, seeding, sieveVars>>

\* Where the handler goes after the `if let Some(core)` block.
AfterCore(result) == IF result.tracers # NoTracers THEN "tracers" ELSE "send"

\* Mutant of Reload: without a new snapshot the handler answers at once,
\* with no tracer update and no event for the housekeeper.
Reload_NothingWithoutCore(a) ==
    /\ adm[a].pc = "reload"
    /\ \E result \in ReloadResults :
          IF ~result.ok
          THEN /\ Respond(a, "error")
               /\ UNCHANGED shared_core
          ELSE IF HasDryRun(adm[a])
          THEN /\ SetAdm(a, [adm[a] EXCEPT !.pc = "done", !.response = "ok",
                                           !.result = result])
               /\ UNCHANGED shared_core
          ELSE IF result.new_core # NoCore
          THEN /\ shared_core' = result.new_core
               /\ SetAdm(a, [adm[a] EXCEPT !.pc = "bump", !.result = result,
                                           !.installed = result.new_core])
          ELSE /\ SetAdm(a, [adm[a] EXCEPT !.pc = "done", !.response = "ok",
                                           !.result = result])
               /\ UNCHANGED shared_core
    /\ UNCHANGED <<config_version, blocked_ip_version, tracers, chan, nreq,
                   heap, now, spc, srv, popped, workers, nenv, horizon, seeding, sieveVars>>

\* (_, GET): reload returns; on a report, the dry-run test and the store.
Reload(a) ==
    /\ adm[a].pc = "reload"
    /\ \E result \in ReloadResults :
          IF ~result.ok
          THEN /\ Respond(a, "error")
               /\ UNCHANGED shared_core
          ELSE IF HasDryRun(adm[a])
          THEN /\ SetAdm(a, [adm[a] EXCEPT !.pc = "done", !.response = "ok",
                                           !.result = result])
               /\ UNCHANGED shared_core
          ELSE IF result.new_core # NoCore
          THEN /\ shared_core' = result.new_core
               /\ SetAdm(a, [adm[a] EXCEPT !.pc = "bump", !.result = result,
                                           !.installed = result.new_core])
          ELSE /\ SetAdm(a, [adm[a] EXCEPT !.pc = AfterCore(result),
                                           !.result = result])
               /\ UNCHANGED shared_core
    /\ UNCHANGED <<config_version, blocked_ip_version, tracers, chan, nreq,
                   heap, now, spc, srv, popped, workers, nenv, horizon, seeding, sieveVars>>

\* The handler without its version bump.
BumpConfigVersion_Skip(a) ==
    /\ adm[a].pc = "bump"
    /\ SetAdm(a, [adm[a] EXCEPT !.pc = AfterCore(adm[a].result)])
    /\ UNCHANGED <<shared_core, config_version, blocked_ip_version, tracers,
                   chan, nreq, heap, now, spc, srv, popped, workers, nenv,
                   horizon, seeding, sieveVars>>

\* self.increment_config_version(), inside `if let Some(core)`.
BumpConfigVersion(a) ==
    /\ adm[a].pc = "bump"
    /\ config_version' = increment_config_version(config_version)
    /\ SetAdm(a, [adm[a] EXCEPT
           !.pc = AfterCore(adm[a].result),
           !.bumps = @ + config_version' - config_version])
    /\ UNCHANGED <<shared_core, blocked_ip_version, tracers, chan, nreq, heap,
                   now, spc, srv, popped, workers, nenv, horizon, seeding, sieveVars>>

\* tracers.update(self.inner.shared_core.load().is_enterprise_edition())
UpdateTracers(a) ==
    /\ adm[a].pc = "tracers"
    /\ tracers' = [bundle |-> adm[a].result.tracers,
                   enterprise |-> is_enterprise_edition(shared_core)]
    /\ SetAdm(a, [adm[a] EXCEPT !.pc = "send"])
    /\ UNCHANGED <<shared_core, config_version, blocked_ip_version, chan, nreq,
                   heap, now, spc, srv, popped, workers, nenv, horizon, seeding, sieveVars>>

\* The handler undoing its version bump when the send fails.
SendReloadSettings_Rollback(a) ==
    /\ adm[a].pc = "send"
    /\ IF SendFails
       THEN /\ Respond(a, "thread_error")
            /\ config_version' = config_version - adm[a].bumps
            /\ UNCHANGED chan
       ELSE /\ SendReady
            /\ chan' = Append(chan, ReloadSettings)
            /\ SetAdm(a, [adm[a] EXCEPT !.pc = "done", !.response = "ok",
                                        !.sent = @ + 1])
            /\ UNCHANGED config_version
    /\ UNCHANGED <<shared_core, blocked_ip_version, tracers, nreq, heap, now,
                   spc, srv, popped, workers, nenv, horizon, seeding, sieveVars>>

\* The handler answering without notifying the housekeeper.
SendReloadSettings_NoSend(a) ==
    /\ adm[a].pc = "send"
    /\ Respond(a, "ok")
    /\ UNCHANGED <<shared_core, config_version, blocked_ip_version, tracers,
                   chan, nreq, heap, now, spc, srv, popped, workers, nenv,
                   horizon, seeding, sieveVars>>

\* housekeeper_tx.send(ReloadSettings).await, map_err(..)?
SendReloadSettings(a) ==
    /\ adm[a].pc = "send"
    /\ IF SendFails
       THEN /\ Respond(a, "thread_error")
            /\ UNCHANGED chan
       ELSE /\ SendReady
            /\ chan' = Append(chan, ReloadSettings)
            /\ SetAdm(a, [adm[a] EXCEPT !.pc = "done", !.response = "ok",
                                        !.sent = @ + 1])
    /\ UNCHANGED <<shared_core, config_version, blocked_ip_version, tracers,
                   nreq, heap, now, spc, srv, popped, workers, nenv, horizon, seeding, sieveVars>>

AdminStep(a) ==
    \/ StartReload(a)
    \/ ReloadLookups(a)
    \/ ReloadCertificates(a)
    \/ ReloadBlockedIps(a)
    \/ Reload(a)
    \/ BumpConfigVersion(a)
    \/ UpdateTracers(a)
    \/ SendReloadSettings(a)

\* ---- Spawned tasks ----
\* kind "acme": the worker of a dispatched Acme(id);
\* kind "acme_init": the task ReloadSettings spawns, todo = providers left;
\* kind "task": any other worker, id = what it runs.  core is the snapshot
\* of the `server` handle the task was given.  Nothing the loop or a handler
\* reads depends on a "task" worker, and nothing waits for it: it stays in the
\* bag as a task that has not completed.
Worker(kind, c, wpc, id, todo, renew_at) ==
    [kind |-> kind, core |-> c, core2 |-> c, pc |-> wpc, id |-> id,
     todo |-> todo, renew_at |-> renew_at]

Task(c, id) == Worker("task", c, "run", id, <<>>, 0)

\* The task of Purge(Data): trace_retention was read from snapshot c, then
\* metrics_retention from snapshot c2.
PurgeDataTask(c, c2) == [Task(c, "Purge(Data)") EXCEPT !.core2 = c2]

spawn(ws, w) == ws (+) SetToBag({w})

finish(ws, w) == ws (-) SetToBag({w})

NoAction == Action(0, Class("", 0, ""))

\* ---- Control events (Ok(Some(event)) of the timeout on rx.recv()) ----
Receives(type) ==
    /\ spc = "wait"
    /\ chan # <<>>
    /\ Head(chan).type = type

\* The has_action guarded schedules of ReloadSettings, on snapshot c.
ReloadOtel(q, c, t) ==
    IF core(c).otel # 0 /\ ~has_action(q, OtelMetrics)
    THEN schedule(q, t + core(c).otel, OtelMetrics) ELSE q

ReloadLicense(q, c, t) ==
    IF core(c).enterprise /\ ~has_action(q, ValidateLicense)
    THEN schedule(q, t + expires_in(c), ValidateLicense) ELSE q

ReloadInternalMetrics(q, c, t) ==
    IF /\ core(c).enterprise
       /\ core(c).metrics_store # 0
       /\ ~has_action(q, InternalMetrics)
    THEN schedule(q, t + time_to_next(core(c).metrics_store, t),
                  InternalMetrics)
    ELSE q

ReloadAlertMetrics(q, c, t) ==
    IF /\ core(c).enterprise
       /\ core(c).metrics_alerts
       /\ ~has_action(q, AlertMetrics)
    THEN schedule(q, t, AlertMetrics) ELSE q

\* The task spawned to reload the ACME certificates; with no provider its
\* loop body never runs and the task is over at once.
SpawnAcmeInit(ws, c) ==
    IF core(c).providers = <<>> THEN ws
    ELSE spawn(ws, Worker("acme_init", c, "init", "", core(c).providers, 0))

HandleReloadSettings ==
    /\ Receives("ReloadSettings")
    /\ chan' = Tail(chan)
    /\ LET server == shared_core IN
       /\ heap' = ReloadAlertMetrics(
                      ReloadInternalMetrics(
                          ReloadLicense(
                              ReloadOtel(heap, server, now), server, now),
                          server, now),
                      server, now)
       /\ workers' = SpawnAcmeInit(workers, server)
    /\ UNCHANGED <<shared_core, config_version, blocked_ip_version, tracers,
                   adm, nreq, now, spc, srv, popped, nenv, horizon, seeding, sieveVars>>

\* Mutant of HandleAcmeReschedule: the entry is removed and not scheduled.
HandleAcmeReschedule_RemovesOnly ==
    /\ Receives("AcmeReschedule")
    /\ chan' = Tail(chan)
    /\ heap' = remove_action(heap, Acme(Head(chan).provider_id))
    /\ UNCHANGED <<shared_core, config_version, blocked_ip_version, tracers,
                   adm, nreq, now, spc, srv, popped, workers, nenv, horizon, seeding, sieveVars>>

HandleAcmeReschedule ==
    /\ Receives("AcmeReschedule")
    /\ chan' = Tail(chan)
    /\ LET action == Acme(Head(chan).provider_id) IN
       heap' = schedule(remove_action(heap, action), Head(chan).renew_at,
                        action)
    /\ UNCHANGED <<shared_core, config_version, blocked_ip_version, tracers,
                   adm, nreq, now, spc, srv, popped, workers, nenv, horizon, seeding, sieveVars>>

\* Purge(Data) loads the Shared Core twice, once for each retention; the
\* other arms spawn at once (Account after build_server).
HandlePurge ==
    /\ Receives("Purge")
    /\ chan' = Tail(chan)
    /\ LET purge == Head(chan).purge IN
       IF purge = "Data"
       THEN /\ srv' = shared_core
            /\ spc' = "purge_data"
            /\ UNCHANGED workers
       ELSE /\ workers' = spawn(workers,
                   IF purge = "Account"
                   THEN Task(shared_core, "Purge(Account)")
                   ELSE Task(NoCore, "Purge(Store)"))
            /\ UNCHANGED <<srv, spc>>
    /\ UNCHANGED <<shared_core, config_version, blocked_ip_version, tracers,
                   adm, nreq, heap, now, popped, nenv, horizon, seeding, sieveVars>>

\* The second load of Purge(Data), and the spawn.
HandlePurgeData ==
    /\ spc = "purge_data"
    /\ workers' = spawn(workers, PurgeDataTask(srv, shared_core))
    /\ spc' = "wait"
    /\ UNCHANGED <<shared_core, config_version, blocked_ip_version, tracers,
                   chan, adm, nreq, heap, now, srv, popped, nenv, horizon, seeding, sieveVars>>

\* An Exit that is taken from the channel and ignored.
HandleExit_KeepsRunning ==
    /\ Receives("Exit")
    /\ chan' = Tail(chan)
    /\ UNCHANGED <<shared_core, config_version, blocked_ip_version, tracers,
                   adm, nreq, heap, now, spc, srv, popped, workers, nenv,
                   horizon, seeding, sieveVars>>

\* HousekeeperEvent::Exit: return.  (Ok(None), the channel closed, returns
\* in the same way; the loop holds a sender in its own Inner, so recv never
\* yields None while it runs.)
HandleExit ==
    /\ Receives("Exit")
    /\ chan' = Tail(chan)
    /\ spc' = "stopped"
    /\ UNCHANGED <<shared_core, config_version, blocked_ip_version, tracers,
                   adm, nreq, heap, now, srv, popped, workers, nenv, horizon, seeding, sieveVars>>

\* ---- Err(_) of the timeout: the wait ended with nothing received ----
\* Mutant of Timeout: the wait ends in the drain although an event is there.
Timeout_DespiteEvent ==
    /\ spc = "wait"
    /\ heap # EmptyBag
    /\ wake_up_time(heap, now) = 0
    /\ srv' = shared_core
    /\ spc' = "drain"
    /\ UNCHANGED <<shared_core, config_version, blocked_ip_version, tracers,
                   chan, adm, nreq, heap, now, popped, workers, nenv,
                   horizon, seeding, sieveVars>>

Timeout ==
    /\ spc = "wait"
    /\ chan = <<>>
    /\ heap # EmptyBag
    /\ wake_up_time(heap, now) = 0
    /\ srv' = shared_core
    /\ spc' = "drain"
    /\ UNCHANGED <<shared_core, config_version, blocked_ip_version, tracers,
                   chan, adm, nreq, heap, now, popped, workers, nenv,
                   horizon, seeding, sieveVars>>

\* `while let Some(event) = queue.pop()`, then the arm for its class: q is
\* the queue and ws the tasks the arm leaves behind.
Pops(class, a) ==
    /\ spc = "drain"
    /\ a \in pop(heap, now)
    /\ a.event.class = class
    /\ popped' = a

Popped(a) == heap (-) SetToBag({a})

DispatchFrame ==
    UNCHANGED <<shared_core, config_version, blocked_ip_version, tracers,
                chan, adm, nreq, now, spc, srv, nenv, horizon, seeding, sieveVars>>

\* Mutant of DispatchAcme: the loop sends the reschedule event itself.
DispatchAcme_SendsItself ==
    \E a \in BagToSet(heap) :
        /\ Pops("Acme", a)
        /\ heap' = Popped(a)
        /\ SendReady
        /\ chan' = Append(chan, AcmeReschedule(a.event.id, now + AcmeBackoff))
        /\ UNCHANGED <<shared_core, config_version, blocked_ip_version, tracers,
                       adm, nreq, now, spc, srv, workers, nenv, horizon, seeding,
                       sieveVars>>

DispatchAcme ==
    \E a \in BagToSet(heap) :
        /\ Pops("Acme", a)
        /\ heap' = Popped(a)
        /\ workers' = spawn(workers,
                            Worker("acme", srv, "renew", a.event.id, <<>>, 0))
        /\ DispatchFrame

DispatchAccount ==
    \E a \in BagToSet(heap) :
        /\ Pops("Account", a)
        /\ heap' = schedule(Popped(a),
                            now + time_to_next(core(srv).account, now),
                            Account)
        /\ workers' = spawn(workers, Task(srv, "Account"))
        /\ DispatchFrame

DispatchSession ==
    \E a \in BagToSet(heap) :
        /\ Pops("Session", a)
        /\ heap' = schedule(Popped(a),
                            now + time_to_next(core(srv).session, now),
                            Session)
        /\ workers' = spawn(workers, Task(srv, "Session"))
        /\ DispatchFrame

DispatchStore ==
    \E a \in BagToSet(heap) :
        /\ Pops("Store", a)
        /\ LET schedules == core(srv).purge_schedules
               idx == a.event.idx
           IN IF idx < Len(schedules)
              THEN /\ heap' = schedule(Popped(a),
                                  now + time_to_next(schedules[idx + 1], now),
                                  Store(idx))
                   /\ workers' = spawn(workers, Task(srv, "Store"))
              ELSE /\ heap' = Popped(a)
                   /\ UNCHANGED workers
        /\ DispatchFrame

DispatchOtelMetrics ==
    \E a \in BagToSet(heap) :
        /\ Pops("OtelMetrics", a)
        /\ IF core(srv).otel # 0
           THEN /\ heap' = schedule(Popped(a), now + core(srv).otel,
                                    OtelMetrics)
                /\ workers' = spawn(workers, Task(srv, "OtelMetrics"))
           ELSE /\ heap' = Popped(a)
                /\ UNCHANGED workers
        /\ DispatchFrame

\* The arm schedules ActionClass::OtelMetrics.
CalculateMetricsNext == OtelMetrics

DispatchCalculateMetrics ==
    \E a \in BagToSet(heap) :
        /\ Pops("CalculateMetrics", a)
        /\ heap' = schedule(Popped(a), now + FiveMinutes, CalculateMetricsNext)
        /\ workers' = spawn(workers, Task(srv, "CalculateMetrics"))
        /\ DispatchFrame

DispatchInternalMetrics ==
    \E a \in BagToSet(heap) :
        /\ Pops("InternalMetrics", a)
        /\ IF core(srv).enterprise /\ core(srv).metrics_store # 0
           THEN /\ heap' = schedule(Popped(a),
                        now + time_to_next(core(srv).metrics_store, now),
                        InternalMetrics)
                /\ workers' = spawn(workers, Task(srv, "InternalMetrics"))
           ELSE /\ heap' = Popped(a)
                /\ UNCHANGED workers
        /\ DispatchFrame

DispatchAlertMetrics ==
    \E a \in BagToSet(heap) :
        /\ Pops("AlertMetrics", a)
        /\ heap' = Popped(a)
        /\ workers' = spawn(workers, Task(srv, "AlertMetrics"))
        /\ DispatchFrame

\* ValidateLicense: the loop itself awaits server.reload().
DispatchValidateLicense ==
    \E a \in BagToSet(heap) :
        /\ Pops("ValidateLicense", a)
        /\ heap' = Popped(a)
        /\ spc' = "reload"
        /\ UNCHANGED <<shared_core, config_version, blocked_ip_version,
                       tracers, chan, adm, nreq, now, srv, workers, nenv,
                       horizon, seeding, sieveVars>>

\* reload() returns to the loop: reschedule and store the new core.
LicenseReload ==
    /\ spc = "reload"
    /\ \E result \in ReloadResults :
          IF result.ok /\ result.new_core # NoCore
          THEN /\ heap' = IF core(result.new_core).enterprise
                          THEN schedule(heap,
                                        now + expires_in(result.new_core),
                                        ValidateLicense)
                          ELSE heap
               /\ shared_core' = result.new_core
               /\ spc' = "license_bump"
          ELSE /\ spc' = "drain"
               /\ UNCHANGED <<heap, shared_core>>
    /\ UNCHANGED <<config_version, blocked_ip_version, tracers, chan, adm,
                   nreq, now, srv, popped, workers, nenv, horizon, seeding, sieveVars>>

\* The ValidateLicense arm without its version bump.
LicenseBump_Skip ==
    /\ spc = "license_bump"
    /\ spc' = "drain"
    /\ UNCHANGED <<shared_core, config_version, blocked_ip_version, tracers,
                   chan, adm, nreq, heap, now, srv, popped, workers, nenv,
                   horizon, seeding, sieveVars>>

\* server.increment_config_version() of the ValidateLicense arm.
LicenseBump ==
    /\ spc = "license_bump"
    /\ config_version' = increment_config_version(config_version)
    /\ spc' = "drain"
    /\ UNCHANGED <<shared_core, blocked_ip_version, tracers, chan, adm, nreq,
                   heap, now, srv, popped, workers, nenv, horizon, seeding, sieveVars>>

\* queue.pop() returns None: back to the wait.
DrainEnd ==
    /\ spc = "drain"
    /\ pop(heap, now) = {}
    /\ spc' = "wait"
    /\ popped' = NoAction
    /\ UNCHANGED <<shared_core, config_version, blocked_ip_version, tracers,
                   chan, adm, nreq, heap, now, srv, workers, nenv, horizon, seeding, sieveVars>>

\* ---- Workers ----
WorkerFrame ==
    UNCHANGED <<shared_core, blocked_ip_version, tracers, adm, nreq, heap,
                now, spc, srv, popped, nenv, horizon, seeding, sieveVars>>

\* The Acme worker without its version bump.
AcmeRenew_NoBump ==
    \E w \in BagToSet(workers) :
        /\ w.kind = "acme"
        /\ w.pc = "renew"
        /\ IF \E i \in DOMAIN core(w.core).providers :
                  core(w.core).providers[i] = w.id
           THEN \E r \in AcmeResults :
                   LET renew_at == IF r = AcmeErr THEN AcmeBackoff ELSE r IN
                   workers' = spawn(finish(workers, w),
                          [w EXCEPT !.pc = "send", !.renew_at = now + renew_at])
           ELSE workers' = finish(workers, w)
        /\ UNCHANGED <<chan, config_version>>
        /\ WorkerFrame

\* The Acme worker up to its send: providers.get, renew, the version bump.
AcmeRenew ==
    \E w \in BagToSet(workers) :
        /\ w.kind = "acme"
        /\ w.pc = "renew"
        /\ IF \E i \in DOMAIN core(w.core).providers :
                  core(w.core).providers[i] = w.id
           THEN \E r \in AcmeResults :
                   LET renew_at == IF r = AcmeErr THEN AcmeBackoff ELSE r IN
                   /\ config_version' =
                          increment_config_version(config_version)
                   /\ workers' = spawn(finish(workers, w),
                          [w EXCEPT !.pc = "send", !.renew_at = now + renew_at])
           ELSE /\ workers' = finish(workers, w)
                /\ UNCHANGED config_version
        /\ UNCHANGED chan
        /\ WorkerFrame

\* housekeeper_tx.send(AcmeReschedule {..}).await.ok()
AcmeSend ==
    \E w \in BagToSet(workers) :
        /\ w.kind = "acme"
        /\ w.pc = "send"
        /\ IF SendFails
           THEN UNCHANGED chan
           ELSE /\ SendReady
                /\ chan' = Append(chan, AcmeReschedule(w.id, w.renew_at))
        /\ workers' = finish(workers, w)
        /\ UNCHANGED config_version
        /\ WorkerFrame

\* What is left of the acme_init task after the provider at the head.
NextProvider(ws, w) ==
    IF Len(w.todo) = 1 THEN finish(ws, w)
    ELSE spawn(finish(ws, w),
               [w EXCEPT !.pc = "init", !.todo = Tail(w.todo)])

\* server.init_acme(provider).await of the task spawned by ReloadSettings.
AcmeInit ==
    \E w \in BagToSet(workers) :
        /\ w.kind = "acme_init"
        /\ w.pc = "init"
        /\ \E r \in AcmeResults :
              IF r = AcmeErr
              THEN workers' = NextProvider(workers, w)
              ELSE workers' = spawn(finish(workers, w),
                       [w EXCEPT !.pc = "send", !.id = Head(w.todo),
                                 !.renew_at = now + r])
        /\ UNCHANGED <<chan, config_version>>
        /\ WorkerFrame

AcmeInitSend ==
    \E w \in BagToSet(workers) :
        /\ w.kind = "acme_init"
        /\ w.pc = "send"
        /\ IF SendFails
           THEN UNCHANGED chan
           ELSE /\ SendReady
                /\ chan' = Append(chan, AcmeReschedule(w.id, w.renew_at))
        /\ workers' = NextProvider(workers, w)
        /\ UNCHANGED config_version
        /\ WorkerFrame

\* ---- Environment ----
\* Another component sends Purge or Exit on the control channel.
EnvSend ==
    /\ nenv > 0
    /\ SendReady
    /\ nenv' = nenv - 1
    /\ \E e \in {Purge(t) : t \in PurgeTypes} \cup {Exit} :
          chan' = Append(chan, e)
    /\ UNCHANGED <<shared_core, config_version, blocked_ip_version, tracers,
                   adm, nreq, heap, now, spc, srv, popped, workers, horizon, seeding, sieveVars>>

\* A tick is five minutes.  The synchronous code of the loop does not span
\* a tick: the clock advances while the loop waits with nothing to do, while
\* it awaits reload(), or after it has stopped.
LoopBusy ==
    \/ spc \in {"drain", "license_bump", "purge_data"}
    \/ spc = "wait" /\ chan # <<>>
    \/ spc = "wait" /\ heap # EmptyBag /\ wake_up_time(heap, now) = 0

Tick ==
    /\ now < horizon
    /\ ~LoopBusy
    /\ now' = now + 1
    /\ UNCHANGED <<shared_core, config_version, blocked_ip_version, tracers,
                   chan, adm, nreq, heap, spc, srv, popped, workers, nenv,
                   horizon, seeding, sieveVars>>

\* ---- spawn_housekeeper up to the loop: the queue is seeded ----
RECURSIVE SeedStores(_, _, _)
SeedStores(q, schedules, idx) ==
    IF idx >= Len(schedules) THEN q
    ELSE SeedStores(schedule(q, time_to_next(schedules[idx + 1], 0),
                             Store(idx)),
                    schedules, idx + 1)

SeedOtel(q, c) ==
    IF core(c).otel # 0 THEN schedule(q, core(c).otel, OtelMetrics) ELSE q

\* The enterprise entries, scheduled after the last init_acme has returned:
\* t is Instant::now() at that point.
SeedEnterprise(q, c, t) ==
    IF ~core(c).enterprise THEN q
    ELSE LET q1 == schedule(q, t + expires_in(c), ValidateLicense)
             q2 == IF core(c).metrics_store # 0
                   THEN schedule(q1,
                                 t + time_to_next(core(c).metrics_store, t),
                                 InternalMetrics)
                   ELSE q1
         IN IF core(c).metrics_alerts
            THEN schedule(q2, t + METRIC_ALERTS_INTERVAL, AlertMetrics)
            ELSE q2

\* The entries scheduled before the first await of the seeding.
Seed(c) ==
    LET q1 == schedule(EmptyBag, time_to_next(core(c).session, 0), Session)
        q2 == schedule(q1, time_to_next(core(c).account, 0), Account)
        q3 == SeedStores(q2, core(c).purge_schedules, 0)
        q4 == SeedOtel(q3, c)
    IN schedule(q4, 0, CalculateMetrics)

\* server.init_acme(provider).await returns for the next provider of the
\* snapshot built before the seeding: Ok(renew_at) schedules the renewal at
\* Instant::now() + renew_at, an error schedules nothing.  After the last
\* provider the enterprise entries are added and the loop is entered.
SeedAcme ==
    /\ spc = "seed"
    /\ \E r \in AcmeResults :
          LET id == Head(seeding)
              q == IF r = AcmeErr THEN heap
                   ELSE schedule(heap, now + r, Acme(id))
          IN IF Tail(seeding) = <<>>
             THEN heap' = SeedEnterprise(q, srv, now) /\ spc' = "wait"
             ELSE heap' = q /\ spc' = "seed"
    /\ seeding' = Tail(seeding)
    /\ UNCHANGED <<shared_core, config_version, blocked_ip_version, tracers,
                   chan, adm, nreq, now, srv, popped, workers, nenv, horizon,
                   sieveVars>>

\* What a behaviour of the server may contain: one admin request and one
\* environment event beside the loop before the first tick, or one of the
\* two beside the loop over MaxTime ticks.
Budgets ==
    {[req |-> MaxReq, env |-> MaxEnv, time |-> 0],
     [req |-> MaxReq, env |-> 0, time |-> MaxTime],
     [req |-> 0, env |-> MaxEnv, time |-> MaxTime]}

SieveAtRest ==
    /\ docs = [i \in DocIds |-> NoDoc]
    /\ blobs = [i \in DocIds |-> NoBlob]
    /\ pc = [p \in Procs |-> "idle"]
    /\ req = [p \in Procs |-> NoReq]
    /\ nops = 0
    /\ item_cap = 0
    /\ stale = [p \in Procs |-> FALSE]

InitServer ==
    /\ SieveAtRest
    /\ shared_core \in CoreIds
    /\ config_version = 0
    /\ blocked_ip_version = 0
    /\ tracers = [bundle |-> NoTracers, enterprise |-> FALSE]
    /\ chan = <<>>
    /\ adm = [a \in Admins |-> IdleHandler]
    /\ \E b \in Budgets :
          /\ nreq = b.req
          /\ nenv = b.env
          /\ horizon = b.time
    /\ now = 0
    /\ srv = shared_core
    /\ seeding = core(shared_core).providers
    /\ heap = IF seeding = <<>>
              THEN SeedEnterprise(Seed(shared_core), shared_core, 0)
              ELSE Seed(shared_core)
    /\ spc = IF seeding = <<>> THEN "wait" ELSE "seed"
    /\ popped = NoAction
    /\ workers = EmptyBag

SchedulerStep ==
    \/ SeedAcme
    \/ HandleReloadSettings
    \/ HandleAcmeReschedule
    \/ HandlePurge
    \/ HandlePurgeData
    \/ HandleExit
    \/ Timeout
    \/ DispatchAcme
    \/ DispatchAccount
    \/ DispatchSession
    \/ DispatchStore
    \/ DispatchOtelMetrics
    \/ DispatchCalculateMetrics
    \/ DispatchInternalMetrics
    \/ DispatchAlertMetrics
    \/ DispatchValidateLicense
    \/ LicenseReload
    \/ LicenseBump
    \/ DrainEnd

WorkerStep ==
    \/ AcmeRenew
    \/ AcmeSend
    \/ AcmeInit
    \/ AcmeInitSend

NextServer ==
    \/ \E a \in Admins : AdminStep(a)
    \/ SchedulerStep
    \/ WorkerStep
    \/ EnvSend
    \/ Tick

SpecServer == InitServer /\ [][NextServer]_vars

\* ======================================================================
\* Properties of the reload endpoint and the housekeeper
\* ======================================================================

\* Handler a has answered a GET /reload without dry-run with success.
ReloadSucceeded(r) ==
    /\ r.pc = "done"
    /\ r.response = "ok"
    /\ r.route = "reload"
    /\ ~r.dry_run

BlockedReloadSucceeded(r) ==
    /\ r.pc = "done"
    /\ r.response = "ok"
    /\ r.route = "server.blocked-ip"

VersionsMonotonic ==
    /\ config_version' >= config_version
    /\ blocked_ip_version' >= blocked_ip_version

\* C6 (as stated): config_version and blocked_ip_version never decrease, and
\* every successful non-dry-run full reload has increased config_version by
\* exactly 1, every successful blocked-IP reload blocked_ip_version by
\* exactly 1.
C6_VersionPerReload ==
    [][/\ VersionsMonotonic
       /\ \A a \in Admins :
            /\ ReloadSucceeded(adm'[a]) => adm'[a].bumps = 1
            /\ BlockedReloadSucceeded(adm'[a]) => adm'[a].blocked_bumps = 1
      ]_vars

\* C6 (amended): the counters never decrease; a successful non-dry-run full
\* reload has increased config_version by exactly 1 when its report carries
\* a new snapshot and has left it alone when the report carries none; a
\* successful blocked-IP reload has increased blocked_ip_version by exactly 1.
C6_VersionPerSwap ==
    [][/\ VersionsMonotonic
       /\ \A a \in Admins :
            /\ ReloadSucceeded(adm'[a]) =>
                  adm'[a].bumps =
                      IF adm'[a].result.new_core # NoCore THEN 1 ELSE 0
            /\ BlockedReloadSucceeded(adm'[a]) => adm'[a].blocked_bumps = 1
      ]_vars

\* A full reload with a new snapshot has succeeded and bumped the counter
\* once, on top of a bump made by the housekeeper or an ACME worker.
C6_Witness ==
    \E a \in Admins :
        /\ ReloadSucceeded(adm[a])
        /\ adm[a].result.new_core # NoCore
        /\ adm[a].bumps = 1
        /\ config_version > 1

\* C7: a successful non-dry-run GET /reload whose report carries a new
\* snapshot stores that snapshot in the Shared Core, increments
\* config_version by exactly 1 and sends exactly one ReloadSettings.
C7_ReloadInstalls ==
    [][\A a \in Admins :
          /\ (adm[a].pc = "reload" /\ adm'[a].pc = "bump") =>
                 shared_core' = adm'[a].result.new_core
          /\ (ReloadSucceeded(adm'[a]) /\ adm'[a].result.new_core # NoCore) =>
                 /\ adm'[a].installed = adm'[a].result.new_core
                 /\ adm'[a].bumps = 1
                 /\ adm'[a].sent = 1
      ]_vars

\* Such a reload has replaced the snapshot by a different one, which is
\* still installed, and its event is in the channel.
C7_Witness ==
    \E a \in Admins :
        /\ ReloadSucceeded(adm[a])
        /\ adm[a].installed # NoCore
        /\ shared_core = adm[a].installed
        /\ config_version = 1
        /\ \E i \in DOMAIN chan : chan[i] = ReloadSettings

\* C8: no step of a GET /reload handler whose request carries dry-run changes
\* the Shared Core, config_version, blocked_ip_version, the tracers or the
\* control channel.
C8_DryRunChangesNothing ==
    [][\A a \in Admins :
          (adm'[a] # adm[a] /\ adm'[a].route = "reload" /\ adm'[a].dry_run) =>
              /\ UNCHANGED <<shared_core, config_version, blocked_ip_version,
                             tracers, chan>>
              /\ adm'[a].bumps = 0
              /\ adm'[a].sent = 0
              /\ adm'[a].installed = NoCore
      ]_vars

\* A dry-run reload whose report carries a new snapshot and tracers has
\* answered with success.
C8_Witness ==
    \E a \in Admins :
        /\ adm[a].pc = "done"
        /\ adm[a].response = "ok"
        /\ adm[a].route = "reload"
        /\ adm[a].dry_run
        /\ adm[a].result.new_core \notin {NoCore, shared_core}
        /\ adm[a].result.tracers # NoTracers

\* C9 (as stated): the queue holds at most one entry per action class.
C9_AtMostOnePerClass ==
    \A a \in BagToSet(heap) :
        /\ heap[a] = 1
        /\ \A b \in BagToSet(heap) : a.event = b.event => a = b

\* The periodic classes that re-arm whatever the snapshot says, and those
\* that re-arm while the snapshot still configures them.
StillConfigured(event, c) ==
    CASE event.class \in {"Session", "Account", "CalculateMetrics"} -> TRUE
      [] event.class = "Store" -> event.idx < Len(core(c).purge_schedules)
      [] event.class = "OtelMetrics" -> core(c).otel # 0
      [] event.class = "InternalMetrics" ->
             core(c).enterprise /\ core(c).metrics_store # 0
      [] OTHER -> FALSE

\* C10 (as stated, for the classes the snapshot configures): once the arm of
\* a popped periodic action has run, the queue holds an entry of the same
\* class.
C10_PeriodicRearmed ==
    (spc = "drain" /\ StillConfigured(popped.event, srv)) =>
        has_action(heap, popped.event)

\* The loop takes the event at the head of the channel in this step.
ReceivesNow(type) ==
    /\ Receives(type)
    /\ Len(chan') < Len(chan)

\* C12: handling AcmeReschedule{provider_id, renew_at} leaves exactly one
\* Acme(provider_id) entry in the queue, due at renew_at, whatever entries of
\* that class were queued before, and leaves the entries of every other
\* class as they were.
C12_AcmeRescheduleReplaces ==
    [][ReceivesNow("AcmeReschedule") =>
          LET e == Head(chan)
              action == Acme(e.provider_id)
          IN /\ CopiesIn(Action(e.renew_at, action), heap') = 1
             /\ \A x \in BagToSet(heap') :
                    x.event = action => x.due = e.renew_at
             /\ \A x \in BagToSet(heap) \cup BagToSet(heap') :
                    x.event # action => CopiesIn(x, heap') = CopiesIn(x, heap)
      ]_vars

\* The loop is about to handle an AcmeReschedule for a provider whose
\* renewal is queued with another due time.
C12_Witness ==
    /\ Receives("AcmeReschedule")
    /\ \E x \in BagToSet(heap) :
          /\ x.event = Acme(Head(chan).provider_id)
          /\ x.due # Head(chan).renew_at

\* C13: an action is popped only if its due time is the smallest in the
\* queue and not after now; within one drain the popped due times ascend.
C13_PopEarliestExpired ==
    [][(spc = "drain" /\ heap' # heap) =>
          /\ popped' \in BagToSet(heap)
          /\ popped'.due <= now
          /\ \A b \in BagToSet(heap) : popped'.due <= b.due
          /\ popped.due <= popped'.due
      ]_vars

\* An action has been dispatched in a drain that leaves an action of the same
\* due time and an action due later in the queue, after an earlier drain
\* dispatched CalculateMetrics.
C13_Witness ==
    /\ spc = "drain"
    /\ popped.event.class = "Session"
    /\ has_action(heap, Account)
    /\ \E b \in BagToSet(heap) : b.due > now
    /\ \E w \in BagToSet(workers) : w.id = "CalculateMetrics"

\* C17 (as stated): every swap of the Shared Core is accompanied by an
\* increment of config_version: a handler that has answered after storing a
\* snapshot has bumped config_version once, on /reload/lookup as on /reload.
C17_SwapBumpsVersion ==
    \A a \in Admins :
        (adm[a].pc = "done" /\ adm[a].response = "ok"
            /\ adm[a].installed # NoCore) => adm[a].bumps = 1

\* C18 (as stated): the admin handler is the only writer of the Shared Core:
\* every step that stores a snapshot is a step of a handler in its lookup or
\* reload arm.
C18_AdminIsOnlyWriter ==
    [][shared_core' # shared_core =>
          \E a \in Admins : /\ adm[a].pc \in {"reload", "lookup"}
                            /\ adm'[a] # adm[a]
      ]_vars

\* C19: the step of a non-dry-run reload that sends ReloadSettings comes
\* after the store and the version bump of a new snapshot; when the send
\* fails (the housekeeper has dropped its receiver) the handler answers with
\* an error, and the step leaves the installed snapshot, config_version and
\* the channel as they are.
C19_FailedSendKeepsSwap ==
    [][\A a \in Admins :
          (adm[a].pc = "send" /\ adm'[a] # adm[a]) =>
             /\ adm[a].result.new_core # NoCore =>
                   /\ adm[a].installed = adm[a].result.new_core
                   /\ adm[a].bumps = 1
             /\ SendFails =>
                   /\ adm'[a].pc = "done"
                   /\ adm'[a].response = "thread_error"
                   /\ adm'[a].sent = 0
                   /\ UNCHANGED <<shared_core, config_version, chan>>
      ]_vars

\* A reload has answered with the send error after installing a snapshot
\* that is still the Shared Core.
C19_Witness ==
    \E a \in Admins :
        /\ adm[a].pc = "done"
        /\ adm[a].response = "thread_error"
        /\ adm[a].installed # NoCore
        /\ shared_core = adm[a].installed
        /\ adm[a].bumps = 1
        /\ config_version >= 1

\* C20 (as stated): a request whose path segment is none of lookup,
\* certificate, server.blocked-ip and the bare reload path is answered with
\* the not-found error at once, and no step of its handler touches the
\* Shared Core, the counters, the tracers or the channel.
C20_UnknownPathNotFound ==
    [][\A a \in Admins :
          (adm'[a] # adm[a] /\ adm'[a].path = "other") =>
             /\ adm'[a].pc = "done"
             /\ adm'[a].response = "not_found"
             /\ UNCHANGED <<shared_core, config_version, blocked_ip_version,
                            tracers, chan>>
      ]_vars

\* C14 (as stated): every operation reads the Shared Core with one load: the
\* snapshots an operation works with are one and the same.
C14_OneLoadPerOperation ==
    \A w \in BagToSet(workers) : w.core2 = w.core

\* C15 (as stated): no step of sieve_activate_script called with an id that
\* does not exist alters a document, and its change list stays empty,
\* whatever scripts are active.
C15_ActivateMissingChangesNothing ==
    [][\A p \in Procs :
          (/\ pc[p] \in {"act_query", "act_load", "act_commit"}
           /\ pc'[p] # pc[p]
           /\ req[p].activate_id # NoId
           /\ ~docs[req[p].activate_id].exists)
          => (docs' = docs /\ req'[p].ret = <<>>)
      ]_vars

\* C16 (as stated): the account never holds more than max_scripts scripts.
C16_AtMostMaxScripts ==
    Cardinality(DocumentIds(docs)) <= sieve_max_scripts

-----------------------------------------------------------------------------
(* The housekeeper under fair scheduling *)

\* The loop and the spawned tasks are tokio tasks that run whenever they
\* can, and time passes; the admin requests and the control events are the
\* finitely many the budgets allow, and none of them has to happen.
FairServer ==
    /\ WF_vars(SchedulerStep)
    /\ WF_vars(WorkerStep)
    /\ WF_vars(Tick)

\* The behaviours checked under fairness: an admin request and a control
\* event beside the loop before the first tick, or a control event beside
\* the loop over MaxTime ticks.
InitServerFair == InitServer /\ (nreq = 0 \/ horizon = 0)

SpecServerFair == InitServerFair /\ [][NextServer]_vars /\ FairServer

\* The classes seeded into the queue that the arms re-arm periodically.
Recurring ==
    {Session, Account, CalculateMetrics, OtelMetrics, InternalMetrics}
        \cup {Store(idx) : idx \in 0..0}

\* The arm of the class has just run.
Dispatched(event) == spc = "drain" /\ popped.event = event

\* The class is not due again within the behaviour after its dispatch at
\* time t: the loop has ended, the snapshot of the drain or the installed one
\* no longer configures the class, no time passes after the dispatch, or the
\* next occurrence is queued for a time after the last tick.
NotDueAgain(event, t) ==
    \/ spc = "stopped"
    \/ ~StillConfigured(event, srv)
    \/ ~StillConfigured(event, shared_core)
    \/ now = horizon /\ horizon = t
    \/ /\ now = horizon
       /\ \E x \in BagToSet(heap) : x.event = event /\ x.due > now

\* C11 (as stated): after each dispatch of a recurring class, that class is
\* dispatched once more at a later time, unless it is not due again within
\* the behaviour.
C11_RecurringFiresAgain ==
    \A event \in Recurring, t \in 0..MaxTime :
        (Dispatched(event) /\ now = t)
            ~> (\/ Dispatched(event) /\ now > t
                \/ NotDueAgain(event, t))

\* The drain pops an action of the class in this step and runs its arm.
DispatchesNow(class) ==
    /\ spc = "drain"
    /\ heap' # heap
    /\ popped'.event.class = class

\* C21 (as stated): the dispatch of CalculateMetrics leaves one
\* CalculateMetrics entry in the queue, due five minutes later, and adds no
\* entry of another class.
C21_CalculateMetricsRearms ==
    [][DispatchesNow("CalculateMetrics") =>
          /\ CopiesIn(Action(now + FiveMinutes, CalculateMetrics), heap') = 1
          /\ \A x \in BagToSet(heap) \cup BagToSet(heap') :
                x.event # CalculateMetrics =>
                    CopiesIn(x, heap') = CopiesIn(x, heap)
      ]_vars

\* The provider is configured in the snapshot the worker was spawned with.
HasProvider(w) ==
    \E i \in DOMAIN core(w.core).providers : core(w.core).providers[i] = w.id

\* The Acme worker w takes its step in `at` in this transition.
AcmeWorkerSteps(w, at) ==
    /\ w.kind = "acme"
    /\ w.pc = at
    /\ CopiesIn(w, workers') < CopiesIn(w, workers)

\* The worker goes on to its send with renew_at = now + d.
GoesToSend(w, d) ==
    LET w2 == [w EXCEPT !.pc = "send", !.renew_at = now + d] IN
    CopiesIn(w2, workers') = CopiesIn(w2, workers) + 1

\* C22 (as stated): the worker of a dispatched Acme(id) always increments
\* config_version and goes on to send AcmeReschedule for id, due after the
\* returned duration or after one hour, and the send always puts the event
\* into the channel.
C22_AcmeAlwaysReschedules ==
    [][\A w \in BagToSet(workers) :
          /\ AcmeWorkerSteps(w, "renew") =>
                /\ config_version' = config_version + 1
                /\ \E d \in RenewDurations \cup {AcmeBackoff} : GoesToSend(w, d)
          /\ AcmeWorkerSteps(w, "send") =>
                chan' = Append(chan, AcmeReschedule(w.id, w.renew_at))
      ]_vars

\* C22 (amended): the worker of a dispatched Acme(id) whose snapshot
\* configures the provider increments config_version by 1 and goes on to
\* send AcmeReschedule for id, due after the returned duration or after one
\* hour; a worker whose snapshot lacks the provider ends without a bump and
\* without a send.  The send puts the event into the channel unless the loop
\* has ended, and then nothing is sent.
C22_AcmeReschedulesConfigured ==
    [][\A w \in BagToSet(workers) :
          /\ (AcmeWorkerSteps(w, "renew") /\ HasProvider(w)) =>
                /\ config_version' = config_version + 1
                /\ \E d \in RenewDurations \cup {AcmeBackoff} : GoesToSend(w, d)
                /\ UNCHANGED chan
          /\ (AcmeWorkerSteps(w, "renew") /\ ~HasProvider(w)) =>
                /\ UNCHANGED <<config_version, chan>>
                /\ workers' = finish(workers, w)
          /\ AcmeWorkerSteps(w, "send") =>
                /\ chan' = IF SendFails THEN chan
                           ELSE Append(chan, AcmeReschedule(w.id, w.renew_at))
                /\ workers' = finish(workers, w)
                /\ UNCHANGED config_version
      ]_vars

\* With no admin request made, the channel holds the AcmeReschedule a worker
\* sent after a failed renewal, the version bumped.
C22_Witness ==
    /\ \A a \in Admins : adm[a].pc = "idle"
    /\ config_version >= 1
    /\ chan # <<>>
    /\ Head(chan) = AcmeReschedule("p1", now + AcmeBackoff)

\* C23 (as stated): the loop is never suspended on the work of an action:
\* between two waits on the control channel it only runs queue operations
\* and spawns, so it is never found awaiting reload().
C23_LoopNeverAwaitsWork == spc # "reload"

\* Process p takes a step in this transition.
StepsOf(p) == pc'[p] # pc[p] \/ req'[p] # req[p]

\* The is_active value of every script that stays stored is kept.
IsActiveKept ==
    \A i \in DocIds :
        (docs[i].exists /\ docs'[i].exists) =>
            docs'[i].is_active = docs[i].is_active

\* C24: a set request of which an item was rejected (not_created,
\* not_updated or not_destroyed is not empty) never enters
\* sieve_activate_script, and none of its steps changes the is_active value
\* of a script.
C24_NoActivationAfterRejection ==
    [][\A p \in Procs :
          (StepsOf(p) /\ req'[p].op = "set" /\ req'[p].failed) =>
             /\ pc'[p] \notin {"act_query", "act_load", "act_commit"}
             /\ IsActiveKept
      ]_vars

\* A set request has ended with one item committed and another rejected
\* while a script is active.
C24_Witness ==
    \E p \in Procs :
        /\ pc[p] = "done"
        /\ req[p].op = "set"
        /\ req[p].failed
        /\ req[p].new_state
        /\ FilterActive(docs) # {}

\* A script of the batch was changed after the activation loaded it.
BatchIsStale(d, b) == \E k \in 1..Len(b) : d[b[k].id] # b[k].snap

\* C25: the commit of the activation batch writes nothing and returns the
\* empty change list when a script of the batch was changed after it was
\* loaded; otherwise every deactivation and the activation of the batch are
\* written together and reported.
C25_ActivationAllOrNothing ==
    [][\A p \in Procs :
          (pc[p] = "act_commit" /\ pc'[p] # "act_commit") =>
             LET b == req[p].batch IN
             IF BatchIsStale(docs, b)
             THEN docs' = docs /\ req'[p].ret = <<>>
             ELSE /\ \A k \in 1..Len(b) :
                        docs'[b[k].id].is_active = b[k].is_active
                  /\ \A i \in DocIds :
                        (\A k \in 1..Len(b) : b[k].id # i) => docs'[i] = docs[i]
                  /\ Len(req'[p].ret) = Len(b)
      ]_vars

\* An activation has ended with an empty change list although it had built
\* a batch: its commit met a script changed by another request.
C25_Witness ==
    \E p \in Procs :
        /\ pc[p] = "done"
        /\ req[p].batch # <<>>
        /\ req[p].ret = <<>>

\* C26: the step of GET /reload/server.blocked-ip that ends the request
\* increments blocked_ip_version by 1 when reload_blocked_ips succeeds, and
\* in every case leaves config_version, the Shared Core and the control
\* channel as they are.
C26_BlockedIpReload ==
    [][\A a \in Admins :
          (adm[a].pc = "server.blocked-ip" /\ adm'[a] # adm[a]) =>
             /\ UNCHANGED <<shared_core, config_version, tracers, chan>>
             /\ adm'[a].pc = "done"
             /\ adm'[a].bumps = 0 /\ adm'[a].sent = 0
             /\ adm'[a].installed = NoCore
             /\ blocked_ip_version' =
                    IF adm'[a].response = "ok"
                    THEN blocked_ip_version + 1 ELSE blocked_ip_version
      ]_vars

\* A blocked-IP reload has succeeded and bumped its counter.
C26_Witness ==
    \E a \in Admins :
        /\ adm[a].pc = "done"
        /\ adm[a].route = "server.blocked-ip"
        /\ adm[a].response = "ok"
        /\ adm[a].blocked_bumps = 1
        /\ blocked_ip_version = 1

\* The classes ReloadSettings looks at, what snapshot c must hold for each
\* and the due time each is scheduled with at time t.
ReloadedClasses == {OtelMetrics, ValidateLicense, InternalMetrics, AlertMetrics}

FeaturePresent(event, c) ==
    CASE event = OtelMetrics -> core(c).otel # 0
      [] event = ValidateLicense -> core(c).enterprise
      [] event = InternalMetrics ->
             core(c).enterprise /\ core(c).metrics_store # 0
      [] event = AlertMetrics -> core(c).enterprise /\ core(c).metrics_alerts
      [] OTHER -> FALSE

ReloadDue(event, c, t) ==
    CASE event = OtelMetrics -> t + core(c).otel
      [] event = ValidateLicense -> t + core(c).license
      [] event = InternalMetrics ->
             t + (core(c).metrics_store - (t % core(c).metrics_store))
      [] OTHER -> t

Queued(q, event) == {x \in BagToSet(q) : x.event = event}

\* C27: handling ReloadSettings schedules each of OtelMetrics,
\* ValidateLicense, InternalMetrics and AlertMetrics once, at its configured
\* time, when the installed snapshot has the feature and no action of the
\* class is queued; every other entry of the queue, those of these classes
\* included, stays as it is.
C27_ReloadSchedulesMissing ==
    [][ReceivesNow("ReloadSettings") =>
          /\ \A event \in ReloadedClasses :
                IF FeaturePresent(event, shared_core) /\ Queued(heap, event) = {}
                THEN /\ Queued(heap', event) =
                            {Action(ReloadDue(event, shared_core, now), event)}
                     /\ CopiesIn(Action(ReloadDue(event, shared_core, now),
                                        event), heap') = 1
                ELSE \A x \in Queued(heap, event) \cup Queued(heap', event) :
                        CopiesIn(x, heap') = CopiesIn(x, heap)
          /\ \A x \in BagToSet(heap) \cup BagToSet(heap') :
                x.event \notin ReloadedClasses =>
                    CopiesIn(x, heap') = CopiesIn(x, heap)
      ]_vars

\* The loop is about to handle ReloadSettings with one of the classes queued
\* at another time than a fresh schedule would give it, and another class
\* configured and not queued.
C27_Witness ==
    /\ Receives("ReloadSettings")
    /\ \E x \in BagToSet(heap) :
          /\ x.event \in ReloadedClasses
          /\ FeaturePresent(x.event, shared_core)
          /\ x.due # ReloadDue(x.event, shared_core, now)
    /\ \E event \in ReloadedClasses :
          FeaturePresent(event, shared_core) /\ Queued(heap, event) = {}

\* C28: the step that receives Exit ends the loop, and once the loop has
\* ended it stays ended: no action is popped, the queue and the channel keep
\* what they hold, and no task is added to the running ones.
C28_ExitStopsLoop ==
    [][/\ ReceivesNow("Exit") =>
             spc' = "stopped" /\ UNCHANGED <<heap, popped, workers>>
       /\ spc = "stopped" =>
             /\ spc' = "stopped"
             /\ UNCHANGED <<heap, popped, srv, chan>>
             /\ BagCardinality(workers') <= BagCardinality(workers)
      ]_vars

\* The loop has ended with an expired action in the queue and an event in
\* the channel.
C28_Witness ==
    /\ spc = "stopped"
    /\ pop(heap, now) # {}
    /\ chan # <<>>

\* C29: when the reload awaited by the ValidateLicense arm returns a new
\* snapshot, the arm stores it; if the snapshot has an enterprise block the
\* arm queues one more ValidateLicense at now + license.expires_in() of that
\* snapshot and leaves the other entries alone; its next step increments
\* config_version by 1 and goes back to the drain.
C29_LicenseReloadInstalls ==
    [][/\ (spc = "reload" /\ spc' = "license_bump" /\ popped.event = ValidateLicense
             /\ core(shared_core').enterprise) =>
             LET next == Action(now + core(shared_core').license,
                                ValidateLicense)
             IN /\ CopiesIn(next, heap') = CopiesIn(next, heap) + 1
                /\ \A x \in BagToSet(heap) \cup BagToSet(heap') :
                      x # next => CopiesIn(x, heap') = CopiesIn(x, heap)
                /\ UNCHANGED config_version
       /\ (spc = "license_bump" /\ spc' # spc) =>
             /\ config_version' = config_version + 1
             /\ spc' = "drain"
             /\ UNCHANGED <<shared_core, heap>>
       /\ (spc # "license_bump" /\ spc' = "license_bump") => spc = "reload"
      ]_vars

\* The ValidateLicense arm has run on a drain that started under another
\* snapshot: the enterprise snapshot it stored is installed, the counter was
\* bumped and the next validation is queued.
C29_Witness ==
    /\ spc = "drain"
    /\ popped.event = ValidateLicense
    /\ shared_core # srv
    /\ core(shared_core).enterprise
    /\ CopiesIn(Action(now + core(shared_core).license, ValidateLicense),
                heap) = 1
    /\ config_version >= 2

\* C30 (as stated): while the snapshot of the drain configures metric
\* alerts, the dispatch of AlertMetrics leaves an AlertMetrics entry in the
\* queue, due one alert interval later.
C30_AlertMetricsRearms ==
    [][(DispatchesNow("AlertMetrics") /\ FeaturePresent(AlertMetrics, srv)) =>
          CopiesIn(Action(now + METRIC_ALERTS_INTERVAL, AlertMetrics), heap') = 1
      ]_vars

----------------------------------------------------------------------------
(* Claims about interleaved Sieve operations *)

\* C31: with sieve_activate_script calls of one account interleaved at their
\* awaits, no state has two different scripts X and Y both stored with
\* is_active = true: of two calls that both ran the IsActive query before
\* either committed, at most one takes effect.
C31_NeverBothActive ==
    \A x, y \in DocIds :
        (x # y /\ docs[x].exists /\ docs[y].exists)
        => ~(docs[x].is_active /\ docs[y].is_active)

\* C32: with destroy items and activations interleaved, no step removes the
\* document of a script that is stored with is_active = true: a destroy that
\* read is_active = false before an activation of the same script committed
\* does not delete it afterwards.
C32_ActiveNeverDeleted ==
    [][\A i \in DocIds :
        (docs[i].exists /\ docs[i].is_active) => docs'[i].exists]_vars

\* C33: an update that store.write rejects with the assert_value conflict
\* (answered forbidden) because another update of the script committed leaves the linked blob of the script as the committed
\* record describes it: when the rejection happens, the blob stored under
\* linked(account, SieveScript, id) is not one the rejected update wrote over
\* the blob of the committed record.
C33_RejectedUpdateKeepsBlob ==
    [][\A p \in Procs :
        (/\ pc[p] = "update_commit"
         /\ pc'[p] = "update"
         /\ req'[p].last.err = "forbidden"
         /\ stale[p]
         /\ req[p].blob # ""
         /\ blobs[req[p].id] = req[p].blob
         /\ docs[req[p].id].exists)
        => (/\ docs' = docs
            /\ BlobSourceLen(blobs'[req[p].id]) = docs'[req[p].id].blob_size)]_vars

\* C34: the change log of a set request gets an entry only for an item that
\* was created, updated or destroyed: an update item that store.write rejects
\* with the assert_value conflict adds nothing to `changes`, so a request
\* whose only update is rejected has nothing to commit and returns no
\* new_state.
C34_RejectedUpdateLogsNothing ==
    [][\A p \in Procs :
        (/\ pc[p] = "update_commit"
         /\ pc'[p] = "update"
         /\ req'[p].last.err = "forbidden")
        => (/\ docs' = docs
            /\ req'[p].changes = req[p].changes)]_vars

\* C35: with set requests interleaved at their awaits, no state has two
\* scripts of the account with the same name: of two creations (or renames)
\* of one name that both ran the name query before either committed, at most
\* one commits.
C35_NoNameTwice ==
    \A i \in DocIds :
        docs[i].exists => Cardinality(FilterName(docs, docs[i].name)) = 1

\* the errors sieve_set_item answers a creation with
ValidationErrors ==
    {"invalidProperties", "forbidden", "alreadyExists", "blobNotFound",
     "tooLarge", "invalidScript"}

\* C36: a create item that sieve_set_item rejects (bad, reserved or duplicate
\* name, invalid property, missing or unknown blobId, compile error) changes
\* nothing in the store: no document id is assigned, no blob is put and no
\* document is created; the item is reported as not created and the request
\* goes on with its remaining items.
C36_RejectedCreateWritesNothing ==
    [][\A p \in Procs :
        (/\ pc[p] = "create"
         /\ req'[p] # req[p]
         /\ req'[p].last.kind = "create"
         /\ req'[p].last.err \in ValidationErrors)
        => (/\ docs' = docs
            /\ blobs' = blobs
            /\ FreeIds' = FreeIds
            /\ req'[p].id = NoId
            /\ req'[p].failed
            /\ req'[p].created = req[p].created
            /\ req'[p].sieve_ids = req[p].sieve_ids
            /\ req'[p].changes = req[p].changes
            /\ req'[p].items = req[p].items - 1
            /\ req'[p].will_destroy = req[p].will_destroy
            /\ pc'[p] = "create")]_vars

\* A request whose first create item was rejected by validation went on and
\* created its second one, the only script of the account.
C36_Witness ==
    \E p \in Procs :
        /\ pc[p] = "create"
        /\ req[p].failed
        /\ req[p].last.kind = "create"
        /\ req[p].last.err = ""
        /\ Len(req[p].created) = 1
        /\ DocumentIds(docs) = {req[p].created[1]}
        /\ blobs[req[p].created[1]] # NoBlob
        /\ \A i \in DocIds \ DocumentIds(docs) : blobs[i] = NoBlob

----------------------------------------------------------------------------
(* Liveness of the ACME renewal *)

\* The loop, the workers and the clock of SpecServerFair, started from every
\* budget: admin requests run beside a clock that ticks.
SpecServerLive == InitServer /\ [][NextServer]_vars /\ FairServer

\* The queue holds exactly one entry for the renewal of provider id.
OneAcmeEntry(id) ==
    \E a \in BagToSet(heap) :
        /\ a.event = Acme(id)
        /\ CopiesIn(a, heap) = 1
        /\ \A b \in BagToSet(heap) : b.event = Acme(id) => b = a

\* Acme(id) was popped and its worker spawned with a snapshot that configures
\* the provider, so that the worker calls renew.
AcmeDispatched(id) ==
    /\ Dispatched(Acme(id))
    /\ \E i \in DOMAIN core(srv).providers : core(srv).providers[i] = id

\* C37: after the dispatch of Acme(id) whose worker calls renew, the queue
\* eventually holds exactly one Acme(id) entry again, unless the loop has
\* ended (the control channel is closed); this also holds while the task
\* spawned by ReloadSettings sends its own AcmeReschedule for the provider.
C37_AcmeStaysArmed ==
    \A id \in Providers :
        AcmeDispatched(id) ~> (OneAcmeEntry(id) \/ spc = "stopped")

\* The renewal was re-armed after a failed renew (due one hour later) while
\* the task spawned by ReloadSettings was re-initialising the same provider.
C37_Witness ==
    /\ spc # "stopped"
    /\ OneAcmeEntry("p1")
    /\ CopiesIn(Action(now + AcmeBackoff, Acme("p1")), heap) = 1
    /\ \E w \in BagToSet(workers) : w.kind = "acme_init" /\ Head(w.todo) = "p1"

----------------------------------------------------------------------------
(* Further claims about the reload endpoint and the loop *)

\* The handler of a non-dry-run GET /reload whose report carries no new
\* snapshot.
WithoutNewCore(r) ==
    /\ r.route = "reload"
    /\ ~r.dry_run
    /\ r.result.ok
    /\ r.result.new_core = NoCore

\* C38: a non-dry-run GET /reload whose report carries no new snapshot
\* changes neither the Shared Core nor config_version in any of its steps,
\* applies the tracers of the report if it has any, and sends one
\* ReloadSettings to the housekeeper before it answers with success.
C38_ReloadWithoutSnapshot ==
    [][\A a \in Admins :
          /\ (adm'[a] # adm[a] /\ WithoutNewCore(adm'[a])) =>
                /\ UNCHANGED <<shared_core, config_version, blocked_ip_version>>
                /\ adm'[a].bumps = 0
                /\ adm'[a].installed = NoCore
          /\ (adm[a].pc = "reload" /\ WithoutNewCore(adm'[a])) =>
                adm'[a].pc = IF adm'[a].result.tracers # NoTracers
                             THEN "tracers" ELSE "send"
          /\ (adm[a].pc = "tracers" /\ adm'[a] # adm[a]
                  /\ WithoutNewCore(adm[a])) =>
                /\ tracers'.bundle = adm[a].result.tracers
                /\ adm'[a].pc = "send"
          /\ (adm[a].pc = "send" /\ ReloadSucceeded(adm'[a])
                  /\ WithoutNewCore(adm[a])) =>
                /\ chan' = Append(chan, ReloadSettings)
                /\ adm'[a].sent = 1
          /\ (ReloadSucceeded(adm'[a]) /\ WithoutNewCore(adm'[a])) =>
                adm'[a].sent = 1
      ]_vars

\* Such a reload has answered with success: the snapshot and the version are
\* those of the start, its tracers are applied and its event is in the
\* channel.
C38_Witness ==
    \E a \in Admins :
        /\ ReloadSucceeded(adm[a])
        /\ WithoutNewCore(adm[a])
        /\ adm[a].result.tracers # NoTracers
        /\ tracers.bundle = adm[a].result.tracers
        /\ config_version = 0
        /\ adm[a].sent = 1
        /\ \E i \in DOMAIN chan : chan[i] = ReloadSettings

\* The loop takes an event from the control channel in this step.
ReceivesEvent == Len(chan') < Len(chan)

\* C39: one iteration of the loop either handles one control event or drains
\* the expired actions, never both: an event is taken only where the loop
\* waits, one at a time and without popping an action; the drain starts only
\* from a wait that ended with the channel empty, and takes no event until
\* it is over.  So an event that is available is handled before an action
\* that is already due.
C39_EventOrDrain ==
    [][/\ ReceivesEvent =>
            /\ spc = "wait"
            /\ chan' = Tail(chan)
            /\ spc' # "drain"
            /\ popped' = popped
            /\ \A a \in BagToSet(heap) :
                  CopiesIn(a, heap') < CopiesIn(a, heap) =>
                      /\ Head(chan).type = "AcmeReschedule"
                      /\ a.event = Acme(Head(chan).provider_id)
       /\ (spc = "wait" /\ spc' = "drain") =>
            /\ chan = <<>>
            /\ chan' = chan
            /\ heap' = heap
            /\ pop(heap, now) # {}
       /\ (spc = "wait" /\ chan # <<>> /\ pop(heap, now) # {}) =>
            /\ spc' # "drain"
            /\ heap' # heap => ReceivesEvent
      ]_vars

\* ReloadSettings was sent and has been handled while CalculateMetrics,
\* due since the start, is still in the queue.
C39_Witness ==
    /\ spc = "wait"
    /\ chan = <<>>
    /\ nenv = MaxEnv
    /\ \E a \in Admins : ReloadSucceeded(adm[a]) /\ adm[a].sent = 1
    /\ Action(0, CalculateMetrics) \in pop(heap, now)

----------------------------------------------------------------------------
(* Back-pressure of the control channel *)

\* Budgets under which more senders than the channel has room for meet a
\* loop that is busy: one admin request and two environment events before
\* the first tick, or one environment event beside a ticking clock.
BlockingBudgets ==
    {[req |-> MaxReq, env |-> MaxEnv + 1, time |-> 0],
     [req |-> 0, env |-> MaxEnv, time |-> MaxTime]}

InitServerBlocking ==
    /\ SieveAtRest
    /\ shared_core \in CoreIds
    /\ config_version = 0
    /\ blocked_ip_version = 0
    /\ tracers = [bundle |-> NoTracers, enterprise |-> FALSE]
    /\ chan = <<>>
    /\ adm = [a \in Admins |-> IdleHandler]
    /\ \E b \in BlockingBudgets :
          /\ nreq = b.req
          /\ nenv = b.env
          /\ horizon = b.time
    /\ now = 0
    /\ srv = shared_core
    /\ seeding = core(shared_core).providers
    /\ heap = IF seeding = <<>>
              THEN SeedEnterprise(Seed(shared_core), shared_core, 0)
              ELSE Seed(shared_core)
    /\ spc = IF seeding = <<>> THEN "wait" ELSE "seed"
    /\ popped = NoAction
    /\ workers = EmptyBag

\* The loop, the spawned tasks and the clock run whenever they can, and so
\* does the send of a reload handler (its task is polled once the channel
\* has room or is closed).
FairSenders ==
    /\ FairServer
    /\ WF_vars(\E a \in Admins : SendReloadSettings(a))

SpecServerBlocking == InitServerBlocking /\ [][NextServer]_vars /\ FairSenders

\* A task of this kind is at its send.
WorkerSending(kind) ==
    \E w \in BagToSet(workers) : w.kind = kind /\ w.pc = "send"

\* C40: no step that puts an event into the control channel is a step of the
\* scheduler loop, so a full channel never blocks the loop: while the loop
\* runs a full channel gets room again, and every sender waiting at its send
\* (the reload handler, the Acme worker, the task that re-initialises ACME)
\* completes it.
C40_ChannelNeverDeadlocks ==
    /\ [][Len(chan') > Len(chan) =>
             /\ chan' = Append(chan, chan'[Len(chan')])
             /\ UNCHANGED <<heap, spc, srv, popped>>]_vars
    /\ (Len(chan) = ChanCap /\ spc # "stopped")
          ~> (Len(chan) < ChanCap \/ spc = "stopped")
    /\ \A a \in Admins : (adm[a].pc = "send") ~> (adm[a].pc # "send")
    /\ \A kind \in {"acme", "acme_init"} :
          WorkerSending(kind) ~> ~WorkerSending(kind)

\* The channel is full, the loop runs and a reload handler waits at its send.
C40_Witness ==
    /\ spc # "stopped"
    /\ Len(chan) = ChanCap
    /\ \E a \in Admins : adm[a].pc = "send"

====
